---- MODULE Spec2Model ----
(***************************************************************************)
(* A model of federation-next's normalized operation layer                 *)
(* (src/src/query_plan/operation.rs): selection keys, normalization with   *)
(* fragment expansion, merging, the sibling __typename optimisation, the   *)
(* conversion back to the raw AST, and the reference-counted, copy-on-     *)
(* write ownership of selection maps and selections.                       *)
(*                                                                         *)
(* Option<T> is modelled as a sequence of length 0 (None) or 1 (Some).     *)
(* Result<T, E> is modelled as a record with a boolean field ok.           *)
(* An IndexMap is a sequence of [key, value] entries with distinct keys.   *)
(***************************************************************************)
EXTENDS Integers, Sequences, FiniteSets, TLC

range(seq) == {seq[n] : n \in 1..Len(seq)}

None == <<>>
Some(x) == <<x>>

(***************************************************************************)
(* The schema the operations are validated against (the SDL of the tests): *)
(*   type Query { t: T  i: I  q: Query }                                   *)
(*   interface I { v1: Int }                                               *)
(*   type T implements I { v1: Int  v2: String }                           *)
(* plus the directives @skip, @include, @defer and                         *)
(*   directive @customSkip(if: Boolean!, label: String!)                   *)
(***************************************************************************)
SchemaName == "schema"

\* the schema of a subgraph
SubgraphName == "subgraph"

CompositeTypes == {"Query", "T", "I"}

SchemaFields ==
    [Query |-> [t |-> "T", i |-> "I", q |-> "Query"],
     T     |-> [v1 |-> "Int", v2 |-> "String"],
     I     |-> [v1 |-> "Int"]]

TYPENAME_FIELD == "__typename"

\* schema.get_type(name)?.try_into::<CompositeTypeDefinitionPosition>() succeeds
is_composite_type(type_name) == type_name \in CompositeTypes

\* parent_type_position.field(name)? followed by field_position.get(schema)?
\* succeeds: the parent declares the field (every composite type has __typename)
has_field(parent_type, field_name) ==
    /\ parent_type \in CompositeTypes
    /\ \/ field_name = TYPENAME_FIELD
       \/ field_name \in DOMAIN SchemaFields[parent_type]

\* definition.ty.inner_named_type() of a declared field
field_type(parent_type, field_name) ==
    CASE field_name = TYPENAME_FIELD -> "String"
      [] field_name = "__schema" -> "__Schema"
      [] field_name = "__type" -> "__Type"
      [] OTHER -> SchemaFields[parent_type][field_name]

(***************************************************************************)
(* Directives.  A directive is [name, arguments], an argument is           *)
(* [name, value].  Name::cmp is the lexicographic order of the names.      *)
(***************************************************************************)
SortedNames == <<"if", "label">>

NameRank(n) == CHOOSE r \in 1..Len(SortedNames) : SortedNames[r] = n

RECURSIVE insert_sorted(_, _)
insert_sorted(sorted, a) ==
    IF sorted = <<>> THEN <<a>>
    ELSE IF NameRank(a.name) < NameRank(Head(sorted).name)
         THEN <<a>> \o sorted
         ELSE <<Head(sorted)>> \o insert_sorted(Tail(sorted), a)

\* Vec::sort_by(|a1, a2| a1.name.cmp(&a2.name)): a stable sort
RECURSIVE sort_by_name(_)
sort_by_name(arguments) ==
    IF arguments = <<>> THEN <<>>
    ELSE insert_sorted(sort_by_name(SubSeq(arguments, 1, Len(arguments) - 1)),
                       arguments[Len(arguments)])

unsorted_arguments(directives) == directives

directives_with_sorted_arguments(directives) ==
    [d \in 1..Len(directives) |->
        [name |-> directives[d].name,
         arguments |-> sort_by_name(directives[d].arguments)]]

is_deferred_selection(directives) ==
    \E d \in 1..Len(directives) : directives[d].name = "defer"

(***************************************************************************)
(* Selection keys (NormalizedSelectionKey).                                *)
(***************************************************************************)
response_name(data) ==
    IF data.alias # None THEN data.alias[1] ELSE data.field_position.field_name

NormalizedFieldData_key(data) ==
    [kind |-> "Field",
     response_name |-> response_name(data),
     directives |-> directives_with_sorted_arguments(data.directives)]

never_deferred_key(data) ==
    [kind |-> "InlineFragment",
     type_condition |-> data.type_condition_position,
     directives |-> directives_with_sorted_arguments(data.directives)]

NormalizedInlineFragmentData_key(data) ==
    IF is_deferred_selection(data.directives)
    THEN [kind |-> "DeferredInlineFragment", deferred_id |-> data.selection_id]
    ELSE [kind |-> "InlineFragment",
          type_condition |-> data.type_condition_position,
          directives |-> directives_with_sorted_arguments(data.directives)]

NormalizedFragmentSpreadData_key(data) ==
    IF is_deferred_selection(data.directives)
    THEN [kind |-> "DeferredFragmentSpread", deferred_id |-> data.selection_id]
    ELSE [kind |-> "FragmentSpread",
          name |-> data.fragment_name,
          directives |-> directives_with_sorted_arguments(data.directives)]

\* NormalizedField::new, NormalizedInlineFragment::new,
\* NormalizedFragmentSpread::new: the element with its precomputed key
NormalizedField_new(data) ==
    [data |-> data, key |-> NormalizedFieldData_key(data)]

NormalizedInlineFragment_new(data) ==
    [data |-> data, key |-> NormalizedInlineFragmentData_key(data)]

NormalizedFragmentSpread_new(data) ==
    [data |-> data, key |-> NormalizedFragmentSpreadData_key(data)]

\* HasNormalizedSelectionKey for NormalizedSelection
key(selection) ==
    CASE selection.kind = "Field" -> selection.field.key
      [] selection.kind = "FragmentSpread" -> selection.fragment_spread.key
      [] selection.kind = "InlineFragment" -> selection.inline_fragment.key

(***************************************************************************)
(* NormalizedSelectionMap: an IndexMap keyed by the value's key.           *)
(***************************************************************************)
NormalizedSelectionMap_new == <<>>

index_of(map, k) ==
    IF \E p \in 1..Len(map) : map[p].key = k
    THEN CHOOSE p \in 1..Len(map) : map[p].key = k
    ELSE 0

contains_key(map, k) == index_of(map, k) # 0

keys(map) == [p \in 1..Len(map) |-> map[p].key]

\* IndexMap::insert(value.key(), value): replaces in place or appends
NormalizedSelectionMap_insert(map, value) ==
    LET p == index_of(map, key(value)) IN
    IF p = 0 THEN Append(map, [key |-> key(value), value |-> value])
    ELSE [map EXCEPT ![p] = [key |-> key(value), value |-> value]]

\* IndexMap::shift_remove(key): the later entries keep their order
NormalizedSelectionMap_remove(map, k) ==
    LET p == index_of(map, k) IN
    IF p = 0 THEN map
    ELSE SubSeq(map, 1, p - 1) \o SubSeq(map, p + 1, Len(map))

(***************************************************************************)
(* Results.                                                                *)
(***************************************************************************)
Ok(v) == [ok |-> TRUE, val |-> v]
Err(v) == [ok |-> FALSE, val |-> v]

OkId(v, id) == [ok |-> TRUE, val |-> v, id |-> id]
ErrId(id) == [ok |-> FALSE, val |-> None, id |-> id]

\* `let r = <call>; <continuation>`: the continuation applied to the result
Then(r, continuation(_)) == continuation(r)

(***************************************************************************)
(* Merging (NormalizedSelectionSet::merge_into and its helpers).  On an    *)
(* error the value returned is self as the early return leaves it.         *)
(***************************************************************************)
\* IndexMap<NormalizedSelectionKey, Vec<_>>: entry(key).or_insert_with(Vec::new).push(item)
bucket_push(buckets, k, item) ==
    IF \E b \in 1..Len(buckets) : buckets[b].key = k
    THEN LET b == CHOOSE c \in 1..Len(buckets) : buckets[c].key = k
         IN [buckets EXCEPT ![b].items = Append(@, item)]
    ELSE Append(buckets, [key |-> k, items |-> <<item>>])

bucket_get(buckets, k) ==
    IF \E b \in 1..Len(buckets) : buckets[b].key = k
    THEN (buckets[CHOOSE c \in 1..Len(buckets) : buckets[c].key = k]).items
    ELSE <<>>

vacant_insert_front(selections, k, value) ==
    <<[key |-> k, value |-> value]>> \o selections

\* VacantEntry::insert on the entry of a key the map does not hold: the new
\* entry is the last one
vacant_insert(selections, k, value) ==
    Append(selections, [key |-> k, value |-> value])

\* The first loop of merge_selections_into: a selection whose key is vacant
\* is inserted at the end, one whose key is occupied is put aside by kind.
RECURSIVE bucket_selections(_, _, _)
bucket_selections(acc, others, n) ==
    IF n > Len(others) THEN acc
    ELSE
      LET other == others[n]
          other_key == key(other)
          p == index_of(acc.selections, other_key)
      IN IF p = 0
         THEN bucket_selections(
                  [acc EXCEPT !.selections = vacant_insert(@, other_key, other)],
                  others, n + 1)
         ELSE LET existing == acc.selections[p].value IN
              IF existing.kind # other.kind
              THEN [acc EXCEPT !.ok = FALSE]
              ELSE CASE existing.kind = "Field" ->
                          bucket_selections(
                              [acc EXCEPT !.fields = bucket_push(@, other_key, other)],
                              others, n + 1)
                     [] existing.kind = "FragmentSpread" ->
                          bucket_selections(
                              [acc EXCEPT !.fragment_spreads =
                                   bucket_push(@, other_key, other)],
                              others, n + 1)
                     [] existing.kind = "InlineFragment" ->
                          bucket_selections(
                              [acc EXCEPT !.inline_fragments =
                                   bucket_push(@, other_key, other)],
                              others, n + 1)

RECURSIVE merge_selections_into(_, _)
RECURSIVE merge_into(_, _)
RECURSIVE merge_buckets(_, _, _)

\* NormalizedFieldSelectionValue::merge_into
NormalizedFieldSelectionValue_merge_into(self, others) ==
    IF Len(others) = 0 THEN Ok(self)
    ELSE IF \E n \in 1..Len(others) :
              \/ others[n].field.data.schema # self.field.data.schema
              \/ others[n].field.data.field_position # self.field.data.field_position
              \/ (self.selection_set # None) # (others[n].selection_set # None)
         THEN Err(self)
         ELSE IF self.selection_set = None THEN Ok(self)
              ELSE Then(merge_into(self.selection_set[1],
                            [n \in 1..Len(others) |-> others[n].selection_set[1]]),
                        LAMBDA r :
                            [ok |-> r.ok,
                             val |-> [self EXCEPT !.selection_set = Some(r.val)]])

\* NormalizedFragmentSpreadSelectionValue::merge_into: a validity check only
NormalizedFragmentSpreadSelectionValue_merge_into(self, others) ==
    IF \E n \in 1..Len(others) :
           others[n].fragment_spread.data.schema # self.fragment_spread.data.schema
    THEN Err(self)
    ELSE Ok(self)

\* NormalizedInlineFragmentSelectionValue::merge_into
NormalizedInlineFragmentSelectionValue_merge_into(self, others) ==
    IF Len(others) = 0 THEN Ok(self)
    ELSE IF \E n \in 1..Len(others) :
              \/ others[n].inline_fragment.data.schema # self.inline_fragment.data.schema
              \/ others[n].inline_fragment.data.parent_type_position
                     # self.inline_fragment.data.parent_type_position
         THEN Err(self)
         ELSE Then(merge_into(self.selection_set,
                       [n \in 1..Len(others) |-> others[n].selection_set]),
                   LAMBDA r :
                       [ok |-> r.ok, val |-> [self EXCEPT !.selection_set = r.val]])

\* The second loop of merge_selections_into: every entry of self absorbs the
\* selections put aside under its key.
merge_buckets(selections, acc, p) ==
    IF p > Len(selections) THEN Ok(selections)
    ELSE Then(CASE selections[p].value.kind = "Field" ->
                     NormalizedFieldSelectionValue_merge_into(
                         selections[p].value,
                         bucket_get(acc.fields, selections[p].key))
                [] selections[p].value.kind = "FragmentSpread" ->
                     NormalizedFragmentSpreadSelectionValue_merge_into(
                         selections[p].value,
                         bucket_get(acc.fragment_spreads, selections[p].key))
                [] selections[p].value.kind = "InlineFragment" ->
                     NormalizedInlineFragmentSelectionValue_merge_into(
                         selections[p].value,
                         bucket_get(acc.inline_fragments, selections[p].key)),
              LAMBDA r :
                  IF r.ok
                  THEN merge_buckets([selections EXCEPT ![p].value = r.val], acc, p + 1)
                  ELSE Err([selections EXCEPT ![p].value = r.val]))

\* NormalizedSelectionSet::merge_selections_into
merge_selections_into(self, others) ==
    IF Len(others) = 0 THEN Ok(self)
    ELSE Then(bucket_selections(
                  [ok |-> TRUE, selections |-> self.selections,
                   fields |-> <<>>, fragment_spreads |-> <<>>,
                   inline_fragments |-> <<>>],
                  others, 1),
              LAMBDA acc :
                  IF ~acc.ok THEN Err([self EXCEPT !.selections = acc.selections])
                  ELSE Then(merge_buckets(acc.selections, acc, 1),
                            LAMBDA r :
                                [ok |-> r.ok,
                                 val |-> [self EXCEPT !.selections = r.val]]))

values(map) == [p \in 1..Len(map) |-> map[p].value]

RECURSIVE flatten(_)
flatten(seqs) == IF seqs = <<>> THEN <<>> ELSE Head(seqs) \o flatten(Tail(seqs))

\* a merge_into that merges every selection set as it meets it
merge_into_eagerly(self, others) ==
    IF Len(others) = 0 THEN Ok(self)
    ELSE IF \E n \in 1..Len(others) :
              \/ others[n].schema # self.schema
              \/ others[n].type_position # self.type_position
         THEN LET first == CHOOSE n \in 1..Len(others) :
                              /\ \/ others[n].schema # self.schema
                                 \/ others[n].type_position # self.type_position
                              /\ \A m \in 1..(n - 1) :
                                    /\ others[m].schema = self.schema
                                    /\ others[m].type_position = self.type_position
              IN Err(merge_selections_into(
                         self, flatten([n \in 1..(first - 1) |->
                                           values(others[n].selections)])).val)
         ELSE merge_selections_into(
                  self, flatten([n \in 1..Len(others) |-> values(others[n].selections)]))

\* NormalizedSelectionSet::merge_into
merge_into(self, others) ==
    IF Len(others) = 0 THEN Ok(self)
    ELSE IF \E n \in 1..Len(others) :
              \/ others[n].schema # self.schema
              \/ others[n].type_position # self.type_position
         THEN Err(self)
         ELSE merge_selections_into(
                  self, flatten([n \in 1..Len(others) |-> values(others[n].selections)]))

(***************************************************************************)
(* Normalization (normalize_and_expand_fragments).  The raw AST:           *)
(*   Field          [kind, name, alias, arguments, directives,             *)
(*                   selection_set]                                        *)
(*   InlineFragment [kind, type_condition, directives, selection_set]      *)
(*   FragmentSpread [kind, fragment_name, directives]                      *)
(*   SelectionSet   [ty, selections]                                       *)
(*   Fragment       [name, directives, selection_set]                      *)
(* Every operator takes the value of NEXT_ID and returns the value it      *)
(* leaves (id): SelectionId::new() is NEXT_ID.fetch_add(1).                *)
(***************************************************************************)
InlineFragmentSpread == "InlineFragmentSpread"
PreserveFragmentSpread == "PreserveFragmentSpread"

\* IndexMap<Name, Node<Fragment>>::get
fragments_get(fragments, name) ==
    IF \E f \in 1..Len(fragments) : fragments[f].name = name
    THEN Some(fragments[CHOOSE f \in 1..Len(fragments) : fragments[f].name = name])
    ELSE None

\* Fragment::type_condition()
type_condition(fragment) == fragment.selection_set.ty

NormalizedSelectionSet_empty(type_position) ==
    [schema |-> SchemaName, type_position |-> type_position,
     selections |-> NormalizedSelectionMap_new]

IntrospectionFields == {"__schema", "__type"}

keeps_introspection(field_name) == FALSE

\* the test at the head of NormalizedFieldSelection::normalize_and_expand_fragments
is_introspection_field(field_name) == field_name \in IntrospectionFields

\* the directives do not prevent the hoisting
hoists_despite_directives(on_parent_type, directives) == on_parent_type

\* "We can hoist/collapse ... if their type condition is on the parent type
\* and they don't have any directives"
can_hoist(on_parent_type, directives) == on_parent_type /\ directives = <<>>

RECURSIVE normalize_selections(_, _, _, _, _, _)
RECURSIVE normalize_and_expand_fragments(_, _, _, _)

\* the NormalizedFieldSelection built at the end of
\* NormalizedFieldSelection::normalize_and_expand_fragments
NormalizedFieldSelection_of(field, parent_type_position, selection_set) ==
    [kind |-> "Field",
     field |-> NormalizedField_new(
                   [schema |-> SchemaName,
                    field_position |-> [parent |-> parent_type_position,
                                        field_name |-> field.name],
                    alias |-> field.alias,
                    arguments |-> field.arguments,
                    directives |-> field.directives]),
     selection_set |-> selection_set,
     sibling_typename |-> None]

\* NormalizedFieldSelection::normalize_and_expand_fragments
NormalizedFieldSelection_normalize_and_expand_fragments(field, parent_type_position, fragments, option, id) ==
    IF is_introspection_field(field.name) THEN OkId(None, id)
    ELSE IF ~has_field(parent_type_position, field.name) THEN ErrId(id)
    ELSE IF is_composite_type(field.selection_set.ty)
    THEN Then(normalize_and_expand_fragments(
                  field.selection_set, fragments, option, id),
              LAMBDA r :
                  IF ~r.ok THEN ErrId(r.id)
                  ELSE OkId(Some(NormalizedFieldSelection_of(
                                     field, parent_type_position, Some(r.val))),
                            r.id))
    ELSE OkId(Some(NormalizedFieldSelection_of(field, parent_type_position, None)),
              id)

\* the NormalizedInlineFragmentSelection built by the two operators below
NormalizedInlineFragmentSelection_of(parent_type_position, type_condition_position, directives, selection_id, selection_set) ==
    [kind |-> "InlineFragment",
     inline_fragment |->
         NormalizedInlineFragment_new(
             [schema |-> SchemaName,
              parent_type_position |-> parent_type_position,
              type_condition_position |-> type_condition_position,
              directives |-> directives,
              selection_id |-> selection_id]),
     selection_set |-> selection_set]

\* NormalizedFragmentSpreadSelection::normalize_and_expand_fragments: the
\* spread as an inline fragment on the fragment's type condition
NormalizedFragmentSpreadSelection_normalize_and_expand_fragments(fragment_spread, parent_type_position, fragments, option, id) ==
    LET found == fragments_get(fragments, fragment_spread.fragment_name) IN
    IF found = None THEN ErrId(id)
    ELSE IF ~is_composite_type(type_condition(found[1])) THEN ErrId(id)
    ELSE Then(normalize_and_expand_fragments(
                  found[1].selection_set, fragments, option, id + 1),
              LAMBDA r :
                  IF ~r.ok THEN ErrId(r.id)
                  ELSE OkId(NormalizedInlineFragmentSelection_of(
                                parent_type_position,
                                Some(type_condition(found[1])),
                                fragment_spread.directives, id, r.val),
                            r.id))

\* NormalizedFragmentSpreadSelection::normalize: the spread kept as a spread
NormalizedFragmentSpreadSelection_normalize(fragment, fragment_spread, id) ==
    OkId([kind |-> "FragmentSpread",
          fragment_spread |->
              NormalizedFragmentSpread_new(
                  [schema |-> SchemaName,
                   fragment_name |-> fragment_spread.fragment_name,
                   directives |-> fragment_spread.directives,
                   selection_id |-> id]),
          selection_set |-> fragment.selection_set], id + 1)

\* NormalizedInlineFragmentSelection::normalize_and_expand_fragments
NormalizedInlineFragmentSelection_normalize_and_expand_fragments(inline_fragment, parent_type_position, fragments, option, id) ==
    IF /\ inline_fragment.type_condition # None
       /\ ~is_composite_type(inline_fragment.type_condition[1])
    THEN ErrId(id)
    ELSE Then(normalize_and_expand_fragments(
                  inline_fragment.selection_set, fragments, option, id + 1),
              LAMBDA r :
                  IF ~r.ok THEN ErrId(r.id)
                  ELSE OkId(NormalizedInlineFragmentSelection_of(
                                parent_type_position,
                                inline_fragment.type_condition,
                                inline_fragment.directives, id, r.val),
                            r.id))

\* destination.push(selection) on success
push_selection(destination, r) ==
    IF ~r.ok THEN ErrId(r.id) ELSE OkId(Append(destination, r.val), r.id)

\* if let Some(selection) = ... { destination.push(selection) }
push_some_selection(destination, r) ==
    IF ~r.ok THEN ErrId(r.id)
    ELSE IF r.val = None THEN OkId(destination, r.id)
    ELSE OkId(Append(destination, r.val[1]), r.id)

\* One iteration of the loop of normalize_selections: the destination after
\* `selection` has been handled.
normalize_selection(selection, parent_type_position, destination, fragments, option, id) ==
    CASE selection.kind = "Field" ->
           push_some_selection(
               destination,
               NormalizedFieldSelection_normalize_and_expand_fragments(
                   selection, parent_type_position, fragments, option, id))
      [] selection.kind = "FragmentSpread" ->
           LET found == fragments_get(fragments, selection.fragment_name) IN
           IF found = None THEN ErrId(id)
           ELSE IF option = InlineFragmentSpread
           THEN IF can_hoist(type_condition(found[1]) = parent_type_position,
                             selection.directives)
                THEN normalize_selections(
                         found[1].selection_set.selections, parent_type_position,
                         destination, fragments, option, id)
                ELSE push_selection(
                         destination,
                         NormalizedFragmentSpreadSelection_normalize_and_expand_fragments(
                             selection, parent_type_position, fragments, option, id))
           ELSE push_selection(
                    destination,
                    NormalizedFragmentSpreadSelection_normalize(
                        found[1], selection, id))
      [] selection.kind = "InlineFragment" ->
           IF can_hoist(IF selection.type_condition # None
                        THEN selection.type_condition[1] = parent_type_position
                        ELSE TRUE,
                        selection.directives)
           THEN normalize_selections(
                    selection.selection_set.selections, parent_type_position,
                    destination, fragments, option, id)
           ELSE push_selection(
                    destination,
                    NormalizedInlineFragmentSelection_normalize_and_expand_fragments(
                        selection, parent_type_position, fragments, option, id))

\* NormalizedSelectionSet::normalize_selections
normalize_selections(selections, parent_type_position, destination, fragments, option, id) ==
    IF selections = <<>> THEN OkId(destination, id)
    ELSE Then(normalize_selection(Head(selections), parent_type_position,
                                  destination, fragments, option, id),
              LAMBDA r :
                  IF ~r.ok THEN r
                  ELSE normalize_selections(Tail(selections), parent_type_position,
                                            r.val, fragments, option, r.id))

\* NormalizedSelectionSet::normalize_and_expand_fragments
normalize_and_expand_fragments(selection_set, fragments, option, id) ==
    IF ~is_composite_type(selection_set.ty) THEN ErrId(id)
    ELSE Then(normalize_selections(selection_set.selections, selection_set.ty,
                                   <<>>, fragments, option, id),
              LAMBDA n :
                  IF ~n.ok THEN ErrId(n.id)
                  ELSE Then(merge_selections_into(
                                NormalizedSelectionSet_empty(selection_set.ty), n.val),
                            LAMBDA m : IF m.ok THEN OkId(m.val, n.id)
                                       ELSE ErrId(n.id)))

(***************************************************************************)
(* optimize_sibling_typenames.                                             *)
(***************************************************************************)
RECURSIVE optimize_sibling_typenames(_, _)
RECURSIVE optimize_entries(_, _, _, _)

\* the two keys noted for a field entry in the loop of optimize_sibling_typenames
note_keys(acc, entry, is_interface_object) ==
    IF /\ entry.value.field.data.field_position.field_name = TYPENAME_FIELD
       /\ ~is_interface_object
       /\ acc.typename_field_key = None
    THEN [acc EXCEPT !.typename_field_key = Some(entry.key)]
    ELSE IF acc.sibling_field_key = None
         THEN [acc EXCEPT !.sibling_field_key = Some(entry.key)]
         ELSE acc

\* The loop of optimize_sibling_typenames over the entries of the map:
\* acc = [ok, selections, typename_field_key, sibling_field_key]
optimize_entries(acc, p, is_interface_object, interface_objects) ==
    IF p > Len(acc.selections) THEN acc
    ELSE
      CASE acc.selections[p].value.kind = "Field" ->
             IF acc.selections[p].value.selection_set = None
             THEN optimize_entries(
                      note_keys(acc, acc.selections[p], is_interface_object),
                      p + 1, is_interface_object, interface_objects)
             ELSE Then(optimize_sibling_typenames(
                           acc.selections[p].value.selection_set[1],
                           interface_objects),
                       LAMBDA r :
                           IF ~r.ok
                           THEN [acc EXCEPT
                                   !.ok = FALSE,
                                   !.selections[p].value.selection_set = Some(r.val)]
                           ELSE optimize_entries(
                                    [note_keys(acc, acc.selections[p],
                                               is_interface_object)
                                     EXCEPT !.selections[p].value.selection_set =
                                                Some(r.val)],
                                    p + 1, is_interface_object, interface_objects))
        [] acc.selections[p].value.kind = "InlineFragment" ->
             Then(optimize_sibling_typenames(
                      acc.selections[p].value.selection_set, interface_objects),
                  LAMBDA r :
                      IF ~r.ok
                      THEN [acc EXCEPT !.ok = FALSE,
                                       !.selections[p].value.selection_set = r.val]
                      ELSE optimize_entries(
                               [acc EXCEPT !.selections[p].value.selection_set = r.val],
                               p + 1, is_interface_object, interface_objects))
        [] acc.selections[p].value.kind = "FragmentSpread" ->
             [acc EXCEPT !.ok = FALSE]

attach_field_name(selections, typename_key, sibling_key) ==
    LET removed == NormalizedSelectionMap_remove(selections, typename_key)
    IN [removed EXCEPT
          ![index_of(removed, sibling_key)].value.sibling_typename =
              Some(selections[index_of(selections, typename_key)]
                       .value.field.data.field_position.field_name)]

\* the end of optimize_sibling_typenames: the __typename entry is removed and
\* the sibling field records its response name
attach_sibling_typename(selections, typename_key, sibling_key) ==
    LET removed == NormalizedSelectionMap_remove(selections, typename_key)
    IN [removed EXCEPT
          ![index_of(removed, sibling_key)].value.sibling_typename =
              Some(response_name(
                       selections[index_of(selections, typename_key)].value.field.data))]

\* NormalizedSelectionSet::optimize_sibling_typenames
optimize_sibling_typenames(self, interface_objects) ==
    Then(optimize_entries(
             [ok |-> TRUE, selections |-> self.selections,
              typename_field_key |-> None, sibling_field_key |-> None],
             1, self.type_position \in interface_objects, interface_objects),
         LAMBDA acc :
             IF ~acc.ok THEN Err([self EXCEPT !.selections = acc.selections])
             ELSE IF acc.typename_field_key # None /\ acc.sibling_field_key # None
             THEN Ok([self EXCEPT !.selections =
                          attach_sibling_typename(acc.selections,
                                                  acc.typename_field_key[1],
                                                  acc.sibling_field_key[1])])
             ELSE Ok([self EXCEPT !.selections = acc.selections]))

(***************************************************************************)
(* Conversion back to the raw AST (the TryFrom implementations).           *)
(***************************************************************************)
RECURSIVE SelectionSet_try_from(_)

\* TryFrom<&NormalizedFieldSelection> for Field
Field_try_from(val) ==
    [kind |-> "Field",
     name |-> val.field.data.field_position.field_name,
     alias |-> val.field.data.alias,
     arguments |-> val.field.data.arguments,
     directives |-> val.field.data.directives,
     selection_set |->
         IF val.selection_set # None
         THEN SelectionSet_try_from(val.selection_set[1])
         ELSE [ty |-> field_type(val.field.data.field_position.parent,
                                 val.field.data.field_position.field_name),
               selections |-> <<>>]]

\* TryFrom<&NormalizedInlineFragmentSelection> for InlineFragment
InlineFragment_try_from(val) ==
    [kind |-> "InlineFragment",
     type_condition |-> val.inline_fragment.data.type_condition_position,
     directives |-> val.inline_fragment.data.directives,
     selection_set |-> SelectionSet_try_from(val.selection_set)]

\* From<&NormalizedFragmentSpreadSelection> for FragmentSpread
FragmentSpread_from(val) ==
    [kind |-> "FragmentSpread",
     fragment_name |-> val.fragment_spread.data.fragment_name,
     directives |-> val.fragment_spread.data.directives]

\* TryFrom<&NormalizedSelection> for Selection
Selection_try_from(val) ==
    CASE val.kind = "Field" -> Field_try_from(val)
      [] val.kind = "FragmentSpread" -> FragmentSpread_from(val)
      [] val.kind = "InlineFragment" -> InlineFragment_try_from(val)

\* TryFrom<&NormalizedSelectionSet> for SelectionSet
SelectionSet_try_from(val) ==
    [ty |-> val.type_position,
     selections |-> [p \in 1..Len(val.selections) |->
                        Selection_try_from(val.selections[p].value)]]

(***************************************************************************)
(* with_unique_id and the textual replacement of spreads.                  *)
(***************************************************************************)
\* NormalizedInlineFragmentSelection::with_unique_id: the returned copy and
\* the value NEXT_ID is left with
NormalizedInlineFragmentSelection_with_unique_id(self, id) ==
    OkId([kind |-> "InlineFragment",
          inline_fragment |->
              NormalizedInlineFragment_new(
                  [self.inline_fragment.data EXCEPT !.selection_id = id]),
          selection_set |-> self.selection_set], id + 1)

(***************************************************************************)
(* The operations the model is run on (the documents of the tests, built   *)
(* as apollo-compiler builds them: a field's selection set is typed by the *)
(* field's base type, an inline fragment's by its type condition or, when  *)
(* it has none, by its parent type).                                       *)
(***************************************************************************)
Variable(name) == [kind |-> "Variable", name |-> name]
StringValue(text) == [kind |-> "String", text |-> text]

Skip(v) == [name |-> "skip", arguments |-> <<[name |-> "if", value |-> Variable(v)]>>]
Include(v) == [name |-> "include", arguments |-> <<[name |-> "if", value |-> Variable(v)]>>]
Defer == [name |-> "defer", arguments |-> <<>>]
CustomSkip(first, second) ==
    [name |-> "customSkip",
     arguments |-> <<[name |-> first,
                      value |-> IF first = "if" THEN Variable("a") ELSE StringValue("foo")],
                     [name |-> second,
                      value |-> IF second = "if" THEN Variable("a") ELSE StringValue("foo")]>>]

RawField(parent, name, alias, directives, selections) ==
    [kind |-> "Field", name |-> name, alias |-> alias, arguments |-> <<>>,
     directives |-> directives,
     selection_set |-> [ty |-> field_type(parent, name), selections |-> selections]]

Leaf(parent, name) == RawField(parent, name, None, <<>>, <<>>)

RawInlineFragment(parent, condition, directives, selections) ==
    [kind |-> "InlineFragment", type_condition |-> condition,
     directives |-> directives,
     selection_set |-> [ty |-> IF condition # None THEN condition[1] ELSE parent,
                        selections |-> selections]]

RawFragmentSpread(name, directives) ==
    [kind |-> "FragmentSpread", fragment_name |-> name, directives |-> directives]

RawFragment(name, condition, selections) ==
    [name |-> name, directives |-> <<>>,
     selection_set |-> [ty |-> condition, selections |-> selections]]

\* fragment FT on T { v2 ...FI }   fragment FI on I { v1 }
\* fragment FJ on I { w: v1 }      fragment FQ on Query { __type q { __typename } }
AllFragments ==
    <<RawFragment("FT", "T", <<Leaf("T", "v2"), RawFragmentSpread("FI", <<>>)>>),
      RawFragment("FI", "I", <<Leaf("I", "v1")>>),
      RawFragment("FJ", "I", <<RawField("I", "v1", Some("w"), <<>>, <<>>)>>),
      RawFragment("FQ", "Query",
                  <<RawField("Query", "__type", None, <<>>, <<Leaf("T", "v1")>>),
                    RawField("Query", "q", None, <<>>,
                             <<Leaf("Query", "__typename")>>)>>)>>

RECURSIVE spread_names(_)
spread_names(selections) ==
    UNION {CASE selections[n].kind = "FragmentSpread" -> {selections[n].fragment_name}
             [] OTHER -> spread_names(selections[n].selection_set.selections)
           : n \in 1..Len(selections)}

\* the fragment definitions of a document: the fragments it uses
used_fragments(selections) ==
    LET direct == spread_names(selections)
        body(name) == fragments_get(AllFragments, name)[1].selection_set.selections
        used == direct \cup UNION {spread_names(body(name)) : name \in direct}
    IN SelectSeq(AllFragments, LAMBDA f : f.name \in used)

\* The operation in which every spread is replaced by an inline fragment on
\* the fragment's type condition with the spread's directives and the
\* fragment's selections.
RECURSIVE inline_spreads(_, _)
inline_spreads(selections, fragments) ==
    [n \in 1..Len(selections) |->
        IF selections[n].kind = "FragmentSpread"
        THEN LET fragment == fragments_get(fragments, selections[n].fragment_name)[1]
             IN [kind |-> "InlineFragment",
                 type_condition |-> Some(type_condition(fragment)),
                 directives |-> selections[n].directives,
                 selection_set |->
                     [ty |-> type_condition(fragment),
                      selections |-> inline_spreads(fragment.selection_set.selections,
                                                    fragments)]]
        ELSE [selections[n] EXCEPT
                !.selection_set.selections = inline_spreads(@, fragments)]]

(***************************************************************************)
(* Bounds and the bounded sets of operations.                              *)
(***************************************************************************)
\* the number of selections written in one generated selection set
MaxSel == 2
\* the value NEXT_ID may have reached when the run starts
MaxStartId == 1

SeqsUpTo(S, n) == UNION {[1..k -> S] : k \in 1..n}

DirectiveLists ==
    {<<>>,
     <<Skip("a")>>,
     <<Skip("b")>>,
     <<CustomSkip("if", "label")>>,
     <<CustomSkip("label", "if")>>,
     <<Skip("a"), Include("a")>>,
     <<Include("a"), Skip("a")>>,
     <<Defer>>}

TypeConditions == {None, Some("T"), Some("I")}
PairFragments == {"FT", "FI", "FJ"}

\* { t { <selections> } }
Under(selections) == <<RawField("Query", "t", None, <<>>, selections)>>

\* { t D1 { v1 }  t D2 { v2 } }
PairOfFields(d1, d2) ==
    <<RawField("Query", "t", None, d1, <<Leaf("T", "v1")>>),
      RawField("Query", "t", None, d2, <<Leaf("T", "v2")>>)>>

\* { t { ... on C1 D1 { v1 }  ... on C2 D2 { w: v1 } } }
PairOfInlineFragments(c1, d1, c2, d2) ==
    Under(<<RawInlineFragment("T", c1, d1, <<Leaf("T", "v1")>>),
            RawInlineFragment("T", c2, d2,
                              <<RawField("T", "v1", Some("w"), <<>>, <<>>)>>)>>)

\* { t { ...F1 D1  ...F2 D2 } }
PairOfSpreads(f1, d1, f2, d2) ==
    Under(<<RawFragmentSpread(f1, d1), RawFragmentSpread(f2, d2)>>)

PairDocuments ==
    {PairOfFields(d1, d2) : d1 \in DirectiveLists, d2 \in DirectiveLists}
    \cup {PairOfInlineFragments(c1, d1, c2, d2) :
              c1 \in TypeConditions, d1 \in DirectiveLists,
              c2 \in TypeConditions, d2 \in DirectiveLists}
    \cup {PairOfSpreads(f1, d1, f2, d2) :
              f1 \in PairFragments, d1 \in DirectiveLists,
              f2 \in PairFragments, d2 \in DirectiveLists}

\* selections written under a field of type T
TSelections ==
    {Leaf("T", "v1"),
     Leaf("T", "v2"),
     Leaf("T", TYPENAME_FIELD),
     RawField("T", TYPENAME_FIELD, Some("a"), <<>>, <<>>),
     RawInlineFragment("T", Some("T"), <<>>,
                       <<Leaf("T", TYPENAME_FIELD), Leaf("T", "v1")>>),
     RawInlineFragment("T", Some("I"), <<Skip("a")>>,
                       <<Leaf("I", TYPENAME_FIELD), Leaf("I", "v1")>>),
     RawInlineFragment("T", None, <<Defer>>, <<Leaf("T", "v2")>>),
     RawFragmentSpread("FT", <<>>),
     RawFragmentSpread("FI", <<Skip("a")>>)}

\* selections written at the root of a query
QuerySelections ==
    {RawField("Query", "__schema", None, <<>>, <<Leaf("T", "v1")>>),
     RawField("Query", "__type", None, <<>>, <<>>),
     Leaf("Query", TYPENAME_FIELD),
     RawField("Query", "t", None, <<>>, <<Leaf("T", "v1")>>),
     RawField("Query", "i", None, <<>>,
              <<Leaf("I", TYPENAME_FIELD), Leaf("I", "v1")>>),
     RawField("Query", "q", None, <<>>,
              <<RawField("Query", "__schema", None, <<>>, <<>>),
                RawField("Query", "t", None, <<>>, <<Leaf("T", "v2")>>)>>),
     RawInlineFragment("Query", Some("Query"), <<>>,
                       <<RawField("Query", "__type", None, <<>>, <<>>),
                         RawField("Query", "t", None, <<>>, <<Leaf("T", "v1")>>)>>),
     RawInlineFragment("Query", None, <<Skip("a")>>,
                       <<RawField("Query", "__schema", None, <<>>, <<>>),
                         Leaf("Query", TYPENAME_FIELD)>>),
     RawFragmentSpread("FQ", <<>>),
     RawFragmentSpread("FQ", <<Skip("a")>>)}

BodyDocuments ==
    {Under(body) : body \in SeqsUpTo(TSelections, MaxSel)}
    \cup SeqsUpTo(QuerySelections, MaxSel)

Documents == PairDocuments \cup BodyDocuments

InterfaceObjectSets == {{}, {"I"}}

(***************************************************************************)
(* Shared ownership.  The selections of a NormalizedSelectionSet are an     *)
(* Arc<NormalizedSelectionMap> and every selection of the map is an Arc of  *)
(* its selection struct.  The heap is the sequence of the Arc allocations:  *)
(* a cell holds the strong count and the value; the value of a map cell is  *)
(* [map |-> <<[key, ptr]>>], the value of a selection cell is the selection *)
(* with, as the selections of its selection set, the address of a map cell. *)
(***************************************************************************)
\* Arc::new
Arc_new(heap, val) ==
    [heap |-> Append(heap, [rc |-> 1, val |-> val]), ptr |-> Len(heap) + 1]

\* Arc::clone
Arc_clone(heap, ptr) == [heap EXCEPT ![ptr].rc = @ + 1]

\* the Arcs a value holds
owned(val) ==
    IF "map" \in DOMAIN val THEN [p \in 1..Len(val.map) |-> val.map[p].ptr]
    ELSE CASE val.kind = "Field" ->
                IF val.selection_set = None THEN <<>>
                ELSE <<val.selection_set[1].selections>>
           [] val.kind = "InlineFragment" -> <<val.selection_set.selections>>
           [] OTHER -> <<>>

\* the derived Clone of a value clones the Arcs it holds
RECURSIVE Arc_clone_all(_, _)
Arc_clone_all(heap, ptrs) ==
    IF ptrs = <<>> THEN heap
    ELSE Arc_clone_all(Arc_clone(heap, Head(ptrs)), Tail(ptrs))

\* drop of an Arc: the last owner drops the value and the Arcs it holds
RECURSIVE Arc_drop(_, _)
RECURSIVE Arc_drop_all(_, _)
Arc_drop(heap, ptr) ==
    IF heap[ptr].rc > 1 THEN [heap EXCEPT ![ptr].rc = @ - 1]
    ELSE Arc_drop_all([heap EXCEPT ![ptr].rc = 0], owned(heap[ptr].val))

Arc_drop_all(heap, ptrs) ==
    IF ptrs = <<>> THEN heap
    ELSE Arc_drop_all(Arc_drop(heap, Head(ptrs)), Tail(ptrs))

\* Arc::make_mut: the only owner mutates the value where it is; another owner
\* leaves the allocation to the rest and goes on with a clone of the value
Arc_make_mut(heap, ptr) ==
    IF heap[ptr].rc = 1 THEN [heap |-> heap, ptr |-> ptr]
    ELSE Arc_new(Arc_clone_all([heap EXCEPT ![ptr].rc = @ - 1],
                               owned(heap[ptr].val)),
                 heap[ptr].val)

\* Arc::try_unwrap(arc).unwrap_or_else(|arc| arc.deref().clone())
Arc_try_unwrap_or_clone(heap, ptr) ==
    IF heap[ptr].rc = 1
    THEN [heap |-> [heap EXCEPT ![ptr].rc = 0], val |-> heap[ptr].val]
    ELSE [heap |-> Arc_clone_all([heap EXCEPT ![ptr].rc = @ - 1],
                                 owned(heap[ptr].val)),
          val |-> heap[ptr].val]

\* the allocations made when a selection set is built: one Arc for each
\* selection, one for the map
RECURSIVE alloc_set(_, _)
RECURSIVE alloc_entries(_, _, _)
alloc_selection(heap, value) ==
    CASE value.kind = "Field" /\ value.selection_set # None ->
           Then(alloc_set(heap, value.selection_set[1]),
                LAMBDA r : Arc_new(r.heap, [value EXCEPT !.selection_set = Some(r.set)]))
      [] value.kind = "InlineFragment" ->
           Then(alloc_set(heap, value.selection_set),
                LAMBDA r : Arc_new(r.heap, [value EXCEPT !.selection_set = r.set]))
      [] OTHER -> Arc_new(heap, value)

alloc_entries(heap, selections, map) ==
    IF selections = <<>> THEN [heap |-> heap, map |-> map]
    ELSE Then(alloc_selection(heap, Head(selections).value),
              LAMBDA r : alloc_entries(r.heap, Tail(selections),
                                       Append(map, [key |-> Head(selections).key,
                                                    ptr |-> r.ptr])))

alloc_set(heap, set) ==
    Then(alloc_entries(heap, set.selections, <<>>),
         LAMBDA r : Then(Arc_new(r.heap, [map |-> r.map]),
                         LAMBDA a : [heap |-> a.heap,
                                     set |-> [set EXCEPT !.selections = a.ptr]]))

\* what reading through the Arcs of a selection set gives
RECURSIVE deref_set(_, _)
deref_selection(heap, ptr) ==
    CASE heap[ptr].val.kind = "Field" /\ heap[ptr].val.selection_set # None ->
           [heap[ptr].val EXCEPT !.selection_set = Some(deref_set(heap, @[1]))]
      [] heap[ptr].val.kind = "InlineFragment" ->
           [heap[ptr].val EXCEPT !.selection_set = deref_set(heap, @)]
      [] OTHER -> heap[ptr].val

deref_set(heap, set) ==
    [set EXCEPT !.selections =
        [p \in 1..Len(heap[set.selections].val.map) |->
            [key |-> heap[set.selections].val.map[p].key,
             value |-> deref_selection(heap, heap[set.selections].val.map[p].ptr)]]]

\* Arc::make_mut(&mut set.selections).insert(value), the selection replaced
\* being dropped: [heap, set]
set_insert(heap, set, ptr) ==
    Then(Arc_make_mut(heap, set.selections),
         LAMBDA m :
            LET k == key(m.heap[ptr].val)
                p == index_of(m.heap[m.ptr].val.map, k)
            IN [heap |-> IF p = 0
                         THEN [m.heap EXCEPT ![m.ptr].val.map =
                                   Append(@, [key |-> k, ptr |-> ptr])]
                         ELSE Arc_drop([m.heap EXCEPT ![m.ptr].val.map[p].ptr = ptr],
                                       m.heap[m.ptr].val.map[p].ptr),
                set |-> [set EXCEPT !.selections = m.ptr]])

\* Arc::make_mut(&mut set.selections).remove(key), the selection removed being
\* dropped: [heap, set]
set_remove(heap, set, k) ==
    Then(Arc_make_mut(heap, set.selections),
         LAMBDA m :
            LET p == index_of(m.heap[m.ptr].val.map, k)
            IN [heap |-> IF p = 0 THEN m.heap
                         ELSE Arc_drop([m.heap EXCEPT ![m.ptr].val.map =
                                            NormalizedSelectionMap_remove(@, k)],
                                       m.heap[m.ptr].val.map[p].ptr),
                set |-> [set EXCEPT !.selections = m.ptr]])

get_selection_set_mut_shared(heap, map_ptr, p) ==
    [heap |-> heap, ptr |-> heap[map_ptr].val.map[p].ptr]

\* NormalizedFieldSelectionValue::get_selection_set_mut and
\* NormalizedInlineFragmentSelectionValue::get_selection_set_mut on the entry
\* at position p of a map the caller owns alone: the entry's Arc is made
\* unique, [heap, ptr] with ptr the selection to mutate
get_selection_set_mut(heap, map_ptr, p) ==
    Then(Arc_make_mut(heap, heap[map_ptr].val.map[p].ptr),
         LAMBDA s : [heap |-> [s.heap EXCEPT ![map_ptr].val.map[p].ptr = s.ptr],
                     ptr |-> s.ptr])

\* NormalizedFieldSelectionValue::get_sibling_typename_mut
get_sibling_typename_mut(heap, map_ptr, p) ==
    Then(Arc_make_mut(heap, heap[map_ptr].val.map[p].ptr),
         LAMBDA s : [heap |-> [s.heap EXCEPT ![map_ptr].val.map[p].ptr = s.ptr],
                     ptr |-> s.ptr])

\* the selection set of a selection, and the selection with another one
selection_set_of(val) ==
    IF val.kind = "Field" THEN val.selection_set[1] ELSE val.selection_set

with_selection_set(val, set) ==
    IF val.kind = "Field" THEN [val EXCEPT !.selection_set = Some(set)]
    ELSE [val EXCEPT !.selection_set = set]

has_selection_set(val) ==
    IF val.kind = "Field" THEN val.selection_set # None ELSE val.kind = "InlineFragment"

\* optimize_sibling_typenames and merge_into as they run on the allocations:
\* [ok, heap, set], the set being self as the call leaves it
RECURSIVE shared_optimize_sibling_typenames(_, _, _)
RECURSIVE shared_optimize_entries(_, _, _, _, _)
RECURSIVE shared_merge_into(_, _, _)
RECURSIVE shared_merge_selections_into(_, _, _)

\* the loop of optimize_sibling_typenames over the map it has made its own:
\* acc = [ok, heap, typename_field_key, sibling_field_key]
shared_optimize_entries(acc, map_ptr, p, is_interface_object, interface_objects) ==
    IF p > Len(acc.heap[map_ptr].val.map) THEN acc
    ELSE
      LET entry == [key |-> acc.heap[map_ptr].val.map[p].key,
                    value |-> acc.heap[acc.heap[map_ptr].val.map[p].ptr].val]
      IN CASE entry.value.kind = "Field" ->
                Then(get_selection_set_mut(acc.heap, map_ptr, p),
                     LAMBDA s :
                        IF entry.value.selection_set = None
                        THEN shared_optimize_entries(
                                 [note_keys(acc, entry, is_interface_object)
                                  EXCEPT !.heap = s.heap],
                                 map_ptr, p + 1, is_interface_object, interface_objects)
                        ELSE Then(shared_optimize_sibling_typenames(
                                      s.heap, entry.value.selection_set[1],
                                      interface_objects),
                                  LAMBDA r :
                                     IF ~r.ok
                                     THEN [acc EXCEPT
                                             !.ok = FALSE,
                                             !.heap = [r.heap EXCEPT ![s.ptr].val =
                                                          with_selection_set(@, r.set)]]
                                     ELSE shared_optimize_entries(
                                              [note_keys(acc, entry, is_interface_object)
                                               EXCEPT !.heap =
                                                   [r.heap EXCEPT ![s.ptr].val =
                                                       with_selection_set(@, r.set)]],
                                              map_ptr, p + 1, is_interface_object,
                                              interface_objects)))
           [] entry.value.kind = "InlineFragment" ->
                Then(get_selection_set_mut(acc.heap, map_ptr, p),
                     LAMBDA s :
                        Then(shared_optimize_sibling_typenames(
                                 s.heap, entry.value.selection_set, interface_objects),
                             LAMBDA r :
                                IF ~r.ok
                                THEN [acc EXCEPT
                                        !.ok = FALSE,
                                        !.heap = [r.heap EXCEPT ![s.ptr].val =
                                                     with_selection_set(@, r.set)]]
                                ELSE shared_optimize_entries(
                                         [acc EXCEPT !.heap =
                                              [r.heap EXCEPT ![s.ptr].val =
                                                  with_selection_set(@, r.set)]],
                                         map_ptr, p + 1, is_interface_object,
                                         interface_objects)))
           [] OTHER -> [acc EXCEPT !.ok = FALSE]

\* the end of optimize_sibling_typenames: remove(&typename_key), then
\* get_mut(&sibling_field_key) and get_sibling_typename_mut; the selection
\* removed is dropped when it goes out of scope
shared_attach_sibling_typename(heap, map_ptr, typename_key, sibling_key) ==
    LET typename_field == heap[map_ptr].val.map[
                              index_of(heap[map_ptr].val.map, typename_key)].ptr
        removed == [heap EXCEPT ![map_ptr].val.map =
                       NormalizedSelectionMap_remove(@, typename_key)]
    IN Then(get_sibling_typename_mut(
                removed, map_ptr, index_of(removed[map_ptr].val.map, sibling_key)),
            LAMBDA s :
               Arc_drop([s.heap EXCEPT ![s.ptr].val.sibling_typename =
                            Some(response_name(heap[typename_field].val.field.data))],
                        typename_field))

shared_optimize_sibling_typenames(heap, set, interface_objects) ==
    Then(Arc_make_mut(heap, set.selections),
         LAMBDA m :
            Then(shared_optimize_entries(
                     [ok |-> TRUE, heap |-> m.heap,
                      typename_field_key |-> None, sibling_field_key |-> None],
                     m.ptr, 1, set.type_position \in interface_objects,
                     interface_objects),
                 LAMBDA acc :
                    [ok |-> acc.ok,
                     heap |-> IF /\ acc.ok
                                 /\ acc.typename_field_key # None
                                 /\ acc.sibling_field_key # None
                              THEN shared_attach_sibling_typename(
                                       acc.heap, m.ptr, acc.typename_field_key[1],
                                       acc.sibling_field_key[1])
                              ELSE acc.heap,
                     set |-> [set EXCEPT !.selections = m.ptr]]))

\* the name of the IndexMap of merge_selections_into that collects a kind
bucket_of(kind) ==
    CASE kind = "Field" -> "fields"
      [] kind = "FragmentSpread" -> "fragment_spreads"
      [] kind = "InlineFragment" -> "inline_fragments"

\* drop of selections taken out of their Arcs
drop_values(heap, selections) ==
    Arc_drop_all(heap, flatten([n \in 1..Len(selections) |-> owned(selections[n])]))

\* the first loop of merge_into: the maps of the others are taken out of their
\* Arcs, their selections are collected: [ok, heap, ptrs]
RECURSIVE take_selections(_, _, _, _)
take_selections(heap, set, others, ptrs) ==
    IF others = <<>> THEN [ok |-> TRUE, heap |-> heap, ptrs |-> ptrs]
    ELSE IF \/ Head(others).schema # set.schema
            \/ Head(others).type_position # set.type_position
         THEN [ok |-> FALSE,
               heap |-> Arc_drop_all(
                            heap, ptrs \o [n \in 1..Len(others) |-> others[n].selections]),
               ptrs |-> <<>>]
         ELSE Then(Arc_try_unwrap_or_clone(heap, Head(others).selections),
                   LAMBDA u : take_selections(u.heap, set, Tail(others),
                                              ptrs \o owned(u.val)))

\* the first loop of merge_selections_into:
\* acc = [ok, heap, set, fields, fragment_spreads, inline_fragments]
RECURSIVE shared_bucket_selections(_, _, _)
shared_bucket_selections(acc, others, n) ==
    IF n > Len(others) THEN acc
    ELSE
      Then(Arc_make_mut(acc.heap, acc.set.selections),
           LAMBDA m :
              LET other == m.heap[others[n]].val
                  p == index_of(m.heap[m.ptr].val.map, key(other))
              IN IF p = 0
                 THEN shared_bucket_selections(
                          [acc EXCEPT
                             !.heap = [m.heap EXCEPT ![m.ptr].val.map =
                                          Append(@, [key |-> key(other),
                                                     ptr |-> others[n]])],
                             !.set.selections = m.ptr],
                          others, n + 1)
                 ELSE IF m.heap[m.heap[m.ptr].val.map[p].ptr].val.kind # other.kind
                      THEN [acc EXCEPT
                              !.ok = FALSE,
                              !.heap = drop_values(
                                           Arc_drop_all(m.heap,
                                                        SubSeq(others, n, Len(others))),
                                           flatten([b \in 1..Len(acc.fields) |->
                                                       acc.fields[b].items])
                                           \o flatten([b \in 1..Len(acc.inline_fragments) |->
                                                          acc.inline_fragments[b].items])),
                              !.set.selections = m.ptr]
                      ELSE Then(Arc_try_unwrap_or_clone(m.heap, others[n]),
                                LAMBDA u :
                                   shared_bucket_selections(
                                       [acc EXCEPT
                                          !.heap = u.heap,
                                          !.set.selections = m.ptr,
                                          ![bucket_of(other.kind)] =
                                              bucket_push(@, key(other), u.val)],
                                       others, n + 1)))

\* the checks of NormalizedFieldSelectionValue::merge_into, of
\* NormalizedFragmentSpreadSelectionValue::merge_into and of
\* NormalizedInlineFragmentSelectionValue::merge_into
can_merge_values(self, others) ==
    \A n \in 1..Len(others) :
        CASE self.kind = "Field" ->
               /\ others[n].field.data.schema = self.field.data.schema
               /\ others[n].field.data.field_position = self.field.data.field_position
               /\ (self.selection_set # None) = (others[n].selection_set # None)
          [] self.kind = "InlineFragment" ->
               /\ others[n].inline_fragment.data.schema = self.inline_fragment.data.schema
               /\ others[n].inline_fragment.data.parent_type_position
                      = self.inline_fragment.data.parent_type_position
          [] OTHER ->
               others[n].fragment_spread.data.schema = self.fragment_spread.data.schema

\* merge_into of the value at position p of the map: the checks, then
\* get_selection_set_mut and merge_into on the selection set: [ok, heap]
shared_value_merge_into(heap, map_ptr, p, others) ==
    IF ~can_merge_values(heap[heap[map_ptr].val.map[p].ptr].val, others)
    THEN [ok |-> FALSE, heap |-> drop_values(heap, others)]
    ELSE IF heap[heap[map_ptr].val.map[p].ptr].val.kind = "FragmentSpread"
         THEN [ok |-> TRUE, heap |-> heap]
         ELSE Then(get_selection_set_mut(heap, map_ptr, p),
                   LAMBDA s :
                      IF ~has_selection_set(s.heap[s.ptr].val)
                      THEN [ok |-> TRUE, heap |-> s.heap]
                      ELSE Then(shared_merge_into(
                                    s.heap, selection_set_of(s.heap[s.ptr].val),
                                    [n \in 1..Len(others) |->
                                        selection_set_of(others[n])]),
                                LAMBDA r :
                                   [ok |-> r.ok,
                                    heap |-> [r.heap EXCEPT ![s.ptr].val =
                                                 with_selection_set(@, r.set)]]))

\* the selections put aside for the entries after position p
later_items(heap, map_ptr, acc, p) ==
    flatten([q \in 1..Len(heap[map_ptr].val.map) |->
                IF q <= p THEN <<>>
                ELSE bucket_get(acc[bucket_of(heap[heap[map_ptr].val.map[q].ptr].val.kind)],
                                heap[map_ptr].val.map[q].key)])

\* the second loop of merge_selections_into: [ok, heap]
RECURSIVE shared_merge_buckets(_, _, _, _)
shared_merge_buckets(heap, map_ptr, acc, p) ==
    IF p > Len(heap[map_ptr].val.map) THEN [ok |-> TRUE, heap |-> heap]
    ELSE IF bucket_get(acc[bucket_of(heap[heap[map_ptr].val.map[p].ptr].val.kind)],
                       heap[map_ptr].val.map[p].key) = <<>>
         THEN shared_merge_buckets(heap, map_ptr, acc, p + 1)
         ELSE Then(shared_value_merge_into(
                       heap, map_ptr, p,
                       bucket_get(
                           acc[bucket_of(heap[heap[map_ptr].val.map[p].ptr].val.kind)],
                           heap[map_ptr].val.map[p].key)),
                   LAMBDA r :
                      IF r.ok THEN shared_merge_buckets(r.heap, map_ptr, acc, p + 1)
                      ELSE [ok |-> FALSE,
                            heap |-> drop_values(
                                         r.heap, later_items(r.heap, map_ptr, acc, p))])

shared_merge_selections_into(heap, set, others) ==
    IF Len(others) = 0 THEN [ok |-> TRUE, heap |-> heap, set |-> set]
    ELSE Then(shared_bucket_selections(
                  [ok |-> TRUE, heap |-> heap, set |-> set, fields |-> <<>>,
                   fragment_spreads |-> <<>>, inline_fragments |-> <<>>],
                  others, 1),
              LAMBDA acc :
                 IF ~acc.ok THEN [ok |-> FALSE, heap |-> acc.heap, set |-> acc.set]
                 ELSE Then(Arc_make_mut(acc.heap, acc.set.selections),
                           LAMBDA m :
                              Then(shared_merge_buckets(m.heap, m.ptr, acc, 1),
                                   LAMBDA r :
                                      [ok |-> r.ok, heap |-> r.heap,
                                       set |-> [set EXCEPT !.selections = m.ptr]])))

shared_merge_into(heap, set, others) ==
    IF Len(others) = 0 THEN [ok |-> TRUE, heap |-> heap, set |-> set]
    ELSE Then(take_selections(heap, set, others, <<>>),
              LAMBDA u :
                 IF ~u.ok THEN [ok |-> FALSE, heap |-> u.heap, set |-> set]
                 ELSE shared_merge_selections_into(u.heap, set, u.ptrs))

\* the operations whose selection sets are merged into one another
MergeDocuments ==
    {<<RawField("Query", "t", None, <<>>, <<Leaf("T", "v1")>>)>>,
     <<RawField("Query", "t", None, <<>>, <<Leaf("T", "v2"), Leaf("T", "v1")>>)>>,
     <<RawField("Query", "i", None, <<>>, <<Leaf("I", "v1")>>),
       RawField("Query", "t", None, <<>>, <<Leaf("T", "v2")>>)>>,
     <<RawField("Query", "q", None, <<>>,
                <<RawField("Query", "t", None, <<>>, <<Leaf("T", "v1")>>)>>),
       Leaf("Query", TYPENAME_FIELD)>>,
     <<Leaf("Query", TYPENAME_FIELD),
       RawField("Query", "i", None, <<>>, <<Leaf("I", "v1")>>)>>,
     <<RawField("Query", "t", None, <<Skip("a")>>, <<Leaf("T", "v1")>>),
       RawField("Query", "t", None, <<>>, <<Leaf("T", "v2")>>)>>,
     Under(<<RawInlineFragment("T", Some("I"), <<Skip("a")>>, <<Leaf("I", "v1")>>),
             Leaf("T", "v2")>>),
     Under(<<RawInlineFragment("T", None, <<Defer>>, <<Leaf("T", "v1")>>)>>),
     Under(<<RawInlineFragment("T", None, <<Defer>>, <<Leaf("T", "v1")>>),
             RawInlineFragment("T", None, <<Defer>>, <<Leaf("T", "v2")>>)>>),
     <<RawInlineFragment("Query", None, <<Defer>>,
                         <<RawField("Query", "t", None, <<>>,
                                    <<Leaf("T", "v1")>>)>>)>>}

\* the number of selection sets handed to merge_into in one run
MaxOthers == 2

\* the operations whose normalized selection set is cloned and mutated
SharedDocuments ==
    {<<RawField("Query", "t", None, <<>>,
                <<Leaf("T", TYPENAME_FIELD), Leaf("T", "v1")>>),
       RawField("Query", "i", None, <<>>, <<Leaf("I", "v1")>>)>>,
     Under(<<RawInlineFragment("T", Some("I"), <<Skip("a")>>, <<Leaf("I", "v1")>>),
             Leaf("T", "v2")>>),
     <<Leaf("Query", TYPENAME_FIELD),
       RawField("Query", "q", None, <<>>,
                <<RawField("Query", "t", None, <<>>, <<Leaf("T", "v1")>>)>>)>>,
     <<RawInlineFragment("Query", None, <<Defer>>,
                         <<RawField("Query", "t", None, <<>>,
                                    <<Leaf("T", "v1")>>)>>),
       RawField("Query", "t", None, <<>>, <<Leaf("T", "v2")>>)>>}

\* the number of mutations of the copies in one run
MaxMutations == 2

\* the positions of a map of a copy that a mutation names
MaxEntries == 3

\* the width of usize in bits, scaled down from the 32 or 64 of a build
UsizeBits == 2

\* the number of calls of SelectionId::new in one run
MaxCalls == 6

\* the number of operations on the map of one run
MaxMapOperations == 4

\* the number of fragments of a NamedFragments
MaxFragments == 3

(***************************************************************************)
(* The state.                                                              *)
(*   operation    the selection set of the operation                       *)
(*   fragments    the fragment definitions of the document                 *)
(*   NEXT_ID      the process-wide counter behind SelectionId::new         *)
(*   normalized   the result of normalizing the operation                  *)
(*   inlined      the result of normalizing the operation with its spreads *)
(*                replaced by inline fragments                             *)
(*   renormalized the result of normalizing the conversion of `normalized` *)
(*   optimized    `normalized` after optimize_sibling_typenames            *)
(*   others       the selection sets about to be merged into the           *)
(*                normalized selection set                                 *)
(*   merged       the last merge_into: the selection set before it, the    *)
(*                sets merged into it, the result, and the number of sets  *)
(*                merged so far                                            *)
(*   heap         the Arc allocations                                      *)
(*   copies       the normalized selection set built on the heap and its   *)
(*                clone                                                    *)
(*   last         the last mutation of a copy: the operation, the copy     *)
(*                mutated, what the two copies were before it, the number  *)
(*                of mutations so far                                      *)
(*   threads      for every thread calling SelectionId::new: where it is   *)
(*                in the call, the value fetch_add gave it, the ids it has *)
(*                obtained so far                                          *)
(*   selection_map  a NormalizedSelectionMap its owner operates on           *)
(*   returned     the last operation on it: its name, its arguments, the  *)
(*                map before it and what it returned                       *)
(*   mapper       the closure map_in_dependency_order is called with       *)
(*   named_fragments  the NamedFragments it is called on: name -> fragment *)
(*   fragments_map, mapped_fragments, removed_fragments  its locals        *)
(*   retained     the names the current retain pass has still to visit     *)
(*   passes       for every pass of the while loop begun, the size of      *)
(*                fragments_map at its start                               *)
(*   calls        the calls of the mapper so far: the fragment, the table  *)
(*                handed over, what the mapper returned                    *)
(*   pc           where map_in_dependency_order is                         *)
(*   arguments    the arguments of a call of a function without effect     *)
(*   result       what that call has returned, once it has                 *)
(***************************************************************************)
VARIABLES operation, fragments, NEXT_ID, normalized, inlined, renormalized,
          optimized, others, merged, heap, copies, last, threads,
          selection_map, returned, mapper, named_fragments, fragments_map,
          mapped_fragments, removed_fragments, retained, passes, calls, pc,
          arguments, result

vars == <<operation, fragments, NEXT_ID, normalized, inlined, renormalized,
          optimized, others, merged, heap, copies, last, threads,
          selection_map, returned, mapper, named_fragments, fragments_map,
          mapped_fragments, removed_fragments, retained, passes, calls, pc,
          arguments, result>>

document == <<operation, fragments>>
pipeline == <<inlined, renormalized, optimized>>
merging == <<others, merged>>
sharing == <<heap, copies, last>>
\* the state the operations on one selection set leave alone
calling == <<threads>>
mapping == <<selection_map, returned>>
ordering == <<mapper, named_fragments, fragments_map, mapped_fragments,
              removed_fragments, retained, passes, calls, pc>>
applying == <<arguments, result>>
elsewhere == <<calling, mapping, ordering, applying>>
\* the state of the operations on selection sets
selection_sets == <<operation, fragments, normalized, inlined, renormalized, optimized,
                    others, merged, heap, copies, last>>

\* the state the steps of one part leave alone
but_calling == <<selection_sets, mapping, ordering, applying>>
but_mapping == <<NEXT_ID, selection_sets, calling, ordering, applying>>
but_ordering == <<NEXT_ID, selection_sets, calling, mapping, applying>>
but_applying == <<NEXT_ID, selection_sets, calling, mapping, ordering>>
but_applying_and_ids == <<selection_sets, calling, mapping, ordering>>

\* the threads that call SelectionId::new
Threads == {"t1", "t2"}

\* no selection set has been built from the document yet
selection_sets_of_document(documents) ==
    /\ \E selections \in documents :
          /\ operation = [ty |-> "Query", selections |-> selections]
          /\ fragments = used_fragments(selections)
    /\ normalized = None
    /\ inlined = None
    /\ renormalized = None
    /\ optimized = None
    /\ others = <<>>
    /\ merged = None
    /\ heap = <<>>
    /\ copies = <<>>
    /\ last = None

\* no thread is in SelectionId::new
no_call ==
    threads = [t \in Threads |-> [pc |-> "idle", fetched |-> 0, ids |-> <<>>]]

\* NormalizedSelectionMap::new()
new_map ==
    /\ selection_map = NormalizedSelectionMap_new
    /\ returned = None

\* map_in_dependency_order is not running
no_ordering ==
    /\ mapper = "none"
    /\ named_fragments = <<>>
    /\ fragments_map = <<>>
    /\ mapped_fragments = <<>>
    /\ removed_fragments = {}
    /\ retained = {}
    /\ passes = <<>>
    /\ calls = <<>>
    /\ pc = "idle"

\* no function has been called
no_application ==
    /\ arguments = None
    /\ result = None

\* the operation with no fragment: query { __typename }
NoDocument == {<<Leaf("Query", TYPENAME_FIELD)>>}

InitOn(documents) ==
    /\ selection_sets_of_document(documents)
    /\ NEXT_ID \in 1..MaxStartId
    /\ no_call
    /\ new_map
    /\ no_ordering
    /\ no_application

Init == InitOn(Documents)

\* NormalizedSelectionSet::normalize_and_expand_fragments on the operation
Normalize(option) ==
    /\ normalized = None
    /\ Then(normalize_and_expand_fragments(operation, fragments, option, NEXT_ID),
            LAMBDA r :
                /\ normalized' = Some([option |-> option, ok |-> r.ok, val |-> r.val])
                /\ NEXT_ID' = r.id)
    /\ UNCHANGED <<elsewhere, document, pipeline, merging, sharing>>

\* the same call on the operation whose spreads are written out as inline fragments
NormalizeInlined ==
    /\ inlined = None
    /\ Then(normalize_and_expand_fragments(
                [operation EXCEPT !.selections = inline_spreads(@, fragments)],
                <<>>, InlineFragmentSpread, NEXT_ID),
            LAMBDA r : /\ inlined' = Some([ok |-> r.ok, val |-> r.val])
                       /\ NEXT_ID' = r.id)
    /\ UNCHANGED <<elsewhere, document, normalized, renormalized, optimized, merging, sharing>>

\* SelectionSet::try_from(&normalized) followed by normalize_and_expand_fragments
Renormalize ==
    /\ normalized # None
    /\ normalized[1].ok
    /\ renormalized = None
    /\ Then(normalize_and_expand_fragments(
                SelectionSet_try_from(normalized[1].val), fragments,
                normalized[1].option, NEXT_ID),
            LAMBDA r : /\ renormalized' = Some([ok |-> r.ok, val |-> r.val])
                       /\ NEXT_ID' = r.id)
    /\ UNCHANGED <<elsewhere, document, normalized, inlined, optimized, merging, sharing>>

\* optimize_sibling_typenames on the normalized selection set
Optimize(interface_objects) ==
    /\ normalized # None
    /\ normalized[1].ok
    /\ optimized = None
    /\ Then(optimize_sibling_typenames(normalized[1].val, interface_objects),
            LAMBDA r : optimized' = Some([interface_objects |-> interface_objects,
                                          ok |-> r.ok, val |-> r.val]))
    /\ UNCHANGED <<elsewhere, document, NEXT_ID, normalized, inlined, renormalized, merging,
                   sharing>>

Next ==
    \/ \E option \in {InlineFragmentSpread} : Normalize(option)
    \/ NormalizeInlined
    \/ Renormalize
    \/ \E interface_objects \in InterfaceObjectSets : Optimize(interface_objects)

Spec == Init /\ [][Next]_vars

(***************************************************************************)
(* Merging: the normalized selection set of one operation receives         *)
(* selection sets normalized from other operations, clones of itself and   *)
(* copies of itself made with with_unique_id.                              *)
(***************************************************************************)
\* the selection set merge_into works on: the normalized one, as the merges
\* made so far have left it
self_selection_set == IF merged = None THEN normalized[1].val ELSE merged[1].val

merged_so_far == IF merged = None THEN 0 ELSE merged[1].count

may_add_other ==
    /\ normalized # None
    /\ normalized[1].ok
    /\ merged_so_far + Len(others) < MaxOthers

\* another operation is normalized; its selection set joins `others`
NormalizeOther(selections) ==
    /\ may_add_other
    /\ Then(normalize_and_expand_fragments(
                [ty |-> "Query", selections |-> selections],
                used_fragments(selections), InlineFragmentSpread, NEXT_ID),
            LAMBDA r : /\ r.ok
                       /\ others' = Append(others, r.val)
                       /\ NEXT_ID' = r.id)
    /\ UNCHANGED <<elsewhere, document, normalized, pipeline, merged, sharing>>

\* self.clone() joins `others`
CloneSelf ==
    /\ may_add_other
    /\ others' = Append(others, self_selection_set)
    /\ UNCHANGED <<elsewhere, document, NEXT_ID, normalized, pipeline, merged, sharing>>

\* a selection set holding, for every selection of self, a clone of it or,
\* for an inline fragment, its with_unique_id() copy
RECURSIVE unique_copies(_, _, _)
unique_copies(selections, map, id) ==
    IF selections = <<>> THEN OkId(map, id)
    ELSE IF Head(selections).value.kind = "InlineFragment"
         THEN Then(NormalizedInlineFragmentSelection_with_unique_id(
                       Head(selections).value, id),
                   LAMBDA r : unique_copies(Tail(selections),
                                            NormalizedSelectionMap_insert(map, r.val),
                                            r.id))
         ELSE unique_copies(Tail(selections),
                            NormalizedSelectionMap_insert(map, Head(selections).value),
                            id)

UniqueCopy ==
    /\ may_add_other
    /\ Then(unique_copies(self_selection_set.selections,
                          NormalizedSelectionMap_new, NEXT_ID),
            LAMBDA r :
                /\ others' = Append(others,
                                    [self_selection_set EXCEPT !.selections = r.val])
                /\ NEXT_ID' = r.id)
    /\ UNCHANGED <<elsewhere, document, normalized, pipeline, merged, sharing>>

\* self.merge_into(others.into_iter())
MergeInto ==
    /\ normalized # None
    /\ normalized[1].ok
    /\ others # <<>>
    /\ Then(merge_into(self_selection_set, others),
            LAMBDA r :
                merged' = Some([self |-> self_selection_set, others |-> others,
                                ok |-> r.ok, val |-> r.val,
                                count |-> merged_so_far + Len(others)]))
    /\ others' = <<>>
    /\ UNCHANGED <<elsewhere, document, NEXT_ID, normalized, pipeline, sharing>>

\* the selection sets nested in the fields of a selection set
nested_selection_sets(set) ==
    {set.selections[p].value.selection_set[1] :
        p \in {q \in 1..Len(set.selections) :
                  /\ set.selections[q].value.kind = "Field"
                  /\ set.selections[q].value.selection_set # None}}

\* a selection set of one of self's fields, or self as another schema has it,
\* joins `others`
TakeForeign ==
    /\ may_add_other
    /\ \E other \in nested_selection_sets(self_selection_set)
                     \cup {[self_selection_set EXCEPT !.schema = SubgraphName]} :
          others' = Append(others, other)
    /\ UNCHANGED <<elsewhere, document, NEXT_ID, normalized, pipeline, merged, sharing>>

InitMerge == InitOn(MergeDocuments)

NextMerge ==
    \/ \E option \in {InlineFragmentSpread} : Normalize(option)
    \/ \E selections \in MergeDocuments : NormalizeOther(selections)
    \/ CloneSelf
    \/ UniqueCopy
    \/ MergeInto

SpecMerge == InitMerge /\ [][NextMerge]_vars

\* merging with selection sets of other types and schemas among the others
NextMergeMixed ==
    \/ \E option \in {InlineFragmentSpread} : Normalize(option)
    \/ \E selections \in MergeDocuments : NormalizeOther(selections)
    \/ TakeForeign
    \/ MergeInto

SpecMergeMixed == InitMerge /\ [][NextMergeMixed]_vars

(***************************************************************************)
(* Sharing: the normalized selection set is built on the heap, cloned, and *)
(* the two copies are mutated through the mutation API of the map, through *)
(* optimize_sibling_typenames and through merge_into.                      *)
(***************************************************************************)
\* the normalized selection set is allocated
Construct ==
    /\ normalized # None
    /\ normalized[1].ok
    /\ copies = <<>>
    /\ Then(alloc_set(heap, normalized[1].val),
            LAMBDA r : heap' = r.heap /\ copies' = <<r.set>>)
    /\ UNCHANGED <<elsewhere, document, NEXT_ID, normalized, pipeline, merging, last>>

\* NormalizedSelectionSet::clone (derived): the Arc of the map is cloned
CloneSet ==
    /\ Len(copies) = 1
    /\ heap' = Arc_clone(heap, copies[1].selections)
    /\ copies' = Append(copies, copies[1])
    /\ UNCHANGED <<elsewhere, document, NEXT_ID, normalized, pipeline, merging, last>>

mutations_so_far == IF last = None THEN 0 ELSE last[1].count

may_mutate == Len(copies) = 2 /\ mutations_so_far < MaxMutations

\* the copy `target` has been mutated by `op`, which returned r = [heap, set]
mutated(op, target, r) ==
    /\ heap' = r.heap
    /\ copies' = [copies EXCEPT ![target] = r.set]
    /\ last' = Some([op |-> op, target |-> target,
                     self |-> deref_set(heap, copies[target]),
                     other |-> deref_set(heap, copies[3 - target]),
                     count |-> mutations_so_far + 1])
    /\ UNCHANGED <<elsewhere, document, NEXT_ID, normalized, pipeline, merging>>

\* a selection no copy holds: __typename under the response name n
new_selection(type_position) ==
    NormalizedFieldSelection_of(
        [name |-> TYPENAME_FIELD, alias |-> Some("n"), arguments |-> <<>>,
         directives |-> <<>>],
        type_position, None)

\* the positions of the map of a copy
entries_of(copy) == 1..Len(heap[copies[copy].selections].val.map)

\* insert of a clone of the selection the other copy holds at position p, or,
\* for p = 0, of a new selection
Insert(target, p) ==
    /\ may_mutate
    /\ p \in {0} \cup entries_of(3 - target)
    /\ IF p = 0
       THEN Then(Arc_new(heap, new_selection(copies[target].type_position)),
                 LAMBDA a : mutated("insert", target,
                                    set_insert(a.heap, copies[target], a.ptr)))
       ELSE mutated("insert", target,
                    set_insert(
                        Arc_clone(heap, heap[copies[3 - target].selections].val.map[p].ptr),
                        copies[target],
                        heap[copies[3 - target].selections].val.map[p].ptr))

\* remove of the key at position p
Remove(target, p) ==
    /\ may_mutate
    /\ p \in entries_of(target)
    /\ mutated("remove", target,
               set_remove(heap, copies[target],
                          heap[copies[target].selections].val.map[p].key))

\* get_mut(key), then get_sibling_typename_mut and an assignment, or
\* get_selection_set_mut and a mutation of the selection set: [heap, set]
get_mut_and_mutate(set, p, change) ==
    Then(Arc_make_mut(heap, set.selections),
         LAMBDA m :
            IF change = "sibling_typename"
            THEN Then(get_sibling_typename_mut(m.heap, m.ptr, p),
                      LAMBDA s :
                         [heap |-> [s.heap EXCEPT ![s.ptr].val.sibling_typename =
                                       Some(TYPENAME_FIELD)],
                          set |-> [set EXCEPT !.selections = m.ptr]])
            ELSE Then(get_selection_set_mut(m.heap, m.ptr, p),
                      LAMBDA s :
                         Then(IF change = "insert"
                              THEN Then(Arc_new(s.heap,
                                                new_selection(
                                                    selection_set_of(s.heap[s.ptr].val)
                                                        .type_position)),
                                        LAMBDA a :
                                           set_insert(a.heap,
                                                      selection_set_of(s.heap[s.ptr].val),
                                                      a.ptr))
                              ELSE set_remove(
                                       s.heap, selection_set_of(s.heap[s.ptr].val),
                                       s.heap[selection_set_of(s.heap[s.ptr].val).selections]
                                           .val.map[1].key),
                              LAMBDA r :
                                 [heap |-> [r.heap EXCEPT ![s.ptr].val =
                                               with_selection_set(@, r.set)],
                                  set |-> [set EXCEPT !.selections = m.ptr]])))

GetMut(target, p, change) ==
    /\ may_mutate
    /\ p \in entries_of(target)
    /\ LET val == heap[heap[copies[target].selections].val.map[p].ptr].val
       IN IF change = "sibling_typename" THEN val.kind = "Field"
          ELSE /\ has_selection_set(val)
               /\ heap[selection_set_of(val).selections].val.map # <<>>
    /\ mutated(change, target, get_mut_and_mutate(copies[target], p, change))

\* optimize_sibling_typenames on a copy
OptimizeCopy(target, interface_objects) ==
    /\ may_mutate
    /\ mutated("optimize_sibling_typenames", target,
               shared_optimize_sibling_typenames(heap, copies[target],
                                                 interface_objects))

\* merge_into on a copy, of a clone of the other copy, of a clone of itself,
\* or of the normalized selection set built anew
MergeIntoCopy(target, source) ==
    /\ may_mutate
    /\ IF source = "new"
       THEN Then(alloc_set(heap, normalized[1].val),
                 LAMBDA a : mutated("merge_into", target,
                                    shared_merge_into(a.heap, copies[target],
                                                      <<a.set>>)))
       ELSE mutated("merge_into", target,
                    shared_merge_into(
                        Arc_clone(heap, copies[IF source = "self" THEN target
                                               ELSE 3 - target].selections),
                        copies[target],
                        <<copies[IF source = "self" THEN target ELSE 3 - target]>>))

InitShared == InitOn(SharedDocuments)

NextShared ==
    \/ \E option \in {InlineFragmentSpread} : Normalize(option)
    \/ Construct
    \/ CloneSet
    \/ \E target \in 1..2 :
          \/ \E p \in 0..MaxEntries : Insert(target, p)
          \/ \E p \in 1..MaxEntries : Remove(target, p)
          \/ \E p \in 1..MaxEntries, change \in {"sibling_typename", "insert", "remove"} :
                GetMut(target, p, change)
          \/ \E interface_objects \in InterfaceObjectSets :
                OptimizeCopy(target, interface_objects)
          \/ \E source \in {"other", "self", "new"} : MergeIntoCopy(target, source)

SpecShared == InitShared /\ [][NextShared]_vars

(***************************************************************************)
(* SelectionId::new called by several threads.  fetch_add is one atomic    *)
(* step of a thread: it reads the counter, stores the sum wrapped to the   *)
(* width of usize, and gives the value read; the thread then returns it.   *)
(***************************************************************************)
\* AtomicUsize::fetch_add(1, AcqRel): the value stored
fetch_add(counter) == (counter + 1) % (2 ^ UsizeBits)

calls_so_far ==
    LET calls_of(t) == Len(threads[t].ids) + (IF threads[t].pc = "fetched" THEN 1 ELSE 0)
    IN calls_of("t1") + calls_of("t2")

\* NEXT_ID.fetch_add(1, atomic::Ordering::AcqRel) by thread t
FetchAdd(t) ==
    /\ threads[t].pc = "idle"
    /\ calls_so_far < MaxCalls
    /\ threads' = [threads EXCEPT ![t].pc = "fetched", ![t].fetched = NEXT_ID]
    /\ NEXT_ID' = fetch_add(NEXT_ID)
    /\ UNCHANGED but_calling

\* Self(..): SelectionId::new returns to thread t
ReturnId(t) ==
    /\ threads[t].pc = "fetched"
    /\ threads' = [threads EXCEPT ![t].pc = "idle",
                                  ![t].ids = Append(@, threads[t].fetched)]
    /\ UNCHANGED <<NEXT_ID, but_calling>>

InitIds == InitOn(NoDocument)

NextIds == \E t \in Threads : FetchAdd(t) \/ ReturnId(t)

SpecIds == InitIds /\ [][NextIds]_vars

(***************************************************************************)
(* The operations of NormalizedSelectionMap and of the values it lends.    *)
(***************************************************************************)
\* the selections the owner of the selection_map holds
MapValues ==
    LET field(name, alias, directives) ==
            NormalizedFieldSelection_of(
                [name |-> name, alias |-> alias, arguments |-> <<>>,
                 directives |-> directives],
                "T", None)
        inline(directives, id) ==
            NormalizedInlineFragmentSelection_of(
                "T", Some("T"), directives, id, NormalizedSelectionSet_empty("T"))
    IN {field("v1", None, <<>>),
        field("v2", Some("v1"), <<>>),
        field("v1", None, <<CustomSkip("label", "if")>>),
        inline(<<Skip("a")>>, 1),
        inline(<<Defer>>, 1),
        inline(<<Defer>>, 2),
        NormalizedFragmentSpreadSelection_normalize(
            RawFragment("FT", "T", <<Leaf("T", "v1")>>),
            RawFragmentSpread("FT", <<>>), 3).val}

MapKeys == {key(value) : value \in MapValues}

\* what a caller does with the NormalizedSelectionValue it got
Changes == {"sibling_typename", "selection_set", "selection"}

\* NormalizedSelectionValue: the mutations it allows on the selection
NormalizedSelectionValue_mutate(selection, change) ==
    CASE selection.kind = "Field" /\ change = "sibling_typename" ->
            \* *get_sibling_typename_mut() = Some(..)
            [selection EXCEPT !.sibling_typename = Some(TYPENAME_FIELD)]
      [] selection.kind = "Field" /\ change = "selection_set" ->
            \* *get_selection_set_mut() = Some(..)
            [selection EXCEPT !.selection_set = Some(NormalizedSelectionSet_empty("T"))]
      [] selection.kind = "Field" /\ change = "selection"
            /\ selection.selection_set # None ->
            [selection EXCEPT !.selection_set[1].selections =
                 NormalizedSelectionMap_insert(@, new_selection("T"))]
      [] selection.kind = "InlineFragment" /\ change = "selection_set" ->
            \* *get_selection_set_mut() = ..
            [selection EXCEPT !.selection_set = NormalizedSelectionSet_empty("I")]
      [] selection.kind = "InlineFragment" /\ change = "selection" ->
            [selection EXCEPT !.selection_set.selections =
                 NormalizedSelectionMap_insert(@, new_selection("T"))]
      [] OTHER -> selection

\* the selection with the key the code would compute for it now
recomputed_key(selection) ==
    CASE selection.kind = "Field" -> NormalizedFieldData_key(selection.field.data)
      [] selection.kind = "FragmentSpread" ->
            NormalizedFragmentSpreadData_key(selection.fragment_spread.data)
      [] selection.kind = "InlineFragment" ->
            NormalizedInlineFragmentData_key(selection.inline_fragment.data)

\* IndexMap::get(key)
NormalizedSelectionMap_get(m, k) ==
    IF contains_key(m, k) THEN Some(m[index_of(m, k)].value) ELSE None

\* NormalizedSelectionMap::get_mut(key) and a mutation through the value
NormalizedSelectionMap_get_mut(m, k, change) ==
    IF contains_key(m, k)
    THEN [m EXCEPT ![index_of(m, k)].value = NormalizedSelectionValue_mutate(@, change)]
    ELSE m

\* NormalizedSelectionMap::iter_mut() and a mutation through every value
NormalizedSelectionMap_iter_mut(m, change) ==
    [p \in 1..Len(m) |->
        [key |-> m[p].key, value |-> NormalizedSelectionValue_mutate(m[p].value, change)]]

\* an insertion that trusts the key of the entry
VacantEntry_insert_unchecked(m, k, value) ==
    Ok(Append(m, [key |-> k, value |-> value]))

\* VacantEntry::insert(value) on the entry of the key k, vacant in m
VacantEntry_insert(m, k, value) ==
    IF k # key(value) THEN Err(m)
    ELSE Ok(Append(m, [key |-> k, value |-> value]))

operations_so_far == IF returned = None THEN 0 ELSE returned[1].count

may_operate == operations_so_far < MaxMapOperations

\* the operation `op` with the arguments k, value has left the map m and
\* returned what `ok` and `out` say
operated(op, k, value, m, ok, out) ==
    /\ selection_map' = m
    /\ returned' = Some([op |-> op, key |-> k, value |-> value, before |-> selection_map,
                         ok |-> ok, out |-> out, count |-> operations_so_far + 1])
    /\ UNCHANGED but_mapping

\* NormalizedSelectionMap::clear
Clear ==
    /\ may_operate
    /\ operated("clear", None, None, NormalizedSelectionMap_new, TRUE, None)

\* NormalizedSelectionMap::insert(value)
MapInsert(value) ==
    /\ may_operate
    /\ operated("insert", None, Some(value),
                NormalizedSelectionMap_insert(selection_map, value), TRUE,
                NormalizedSelectionMap_get(selection_map, key(value)))

\* NormalizedSelectionMap::remove(key)
MapRemove(k) ==
    /\ may_operate
    /\ operated("remove", Some(k), None, NormalizedSelectionMap_remove(selection_map, k),
                TRUE, NormalizedSelectionMap_get(selection_map, k))

\* NormalizedSelectionMap::get_mut(key), then a mutation through the value
MapGetMut(k, change) ==
    /\ may_operate
    /\ operated("get_mut", Some(k), None,
                NormalizedSelectionMap_get_mut(selection_map, k, change), TRUE, None)

\* NormalizedSelectionMap::iter_mut(), then a mutation through every value
MapIterMut(change) ==
    /\ may_operate
    /\ operated("iter_mut", None, None,
                NormalizedSelectionMap_iter_mut(selection_map, change), TRUE, None)

\* entry(key) gives Entry::Vacant, then VacantEntry::insert(value)
EntryVacantInsert(k, value) ==
    /\ may_operate
    /\ ~contains_key(selection_map, k)
    /\ Then(VacantEntry_insert(selection_map, k, value),
            LAMBDA r : operated("vacant_insert", Some(k), Some(value), r.val, r.ok, None))

\* entry(key) gives Entry::Occupied, then OccupiedEntry::remove()
EntryOccupiedRemove(k) ==
    /\ may_operate
    /\ contains_key(selection_map, k)
    /\ operated("occupied_remove", Some(k), None,
                NormalizedSelectionMap_remove(selection_map, k), TRUE,
                NormalizedSelectionMap_get(selection_map, k))

\* entry(key) gives Entry::Occupied, then OccupiedEntry::get_mut() or
\* into_mut() and a mutation through the value
EntryOccupiedGetMut(k, change) ==
    /\ may_operate
    /\ contains_key(selection_map, k)
    /\ operated("occupied_get_mut", Some(k), None,
                NormalizedSelectionMap_get_mut(selection_map, k, change), TRUE, None)

InitMap == InitOn(NoDocument)

NextMap ==
    \/ Clear
    \/ \E value \in MapValues : MapInsert(value)
    \/ \E k \in MapKeys : MapRemove(k)
    \/ \E k \in MapKeys, change \in Changes : MapGetMut(k, change)
    \/ \E change \in Changes : MapIterMut(change)
    \/ \E k \in MapKeys, value \in MapValues : EntryVacantInsert(k, value)
    \/ \E k \in MapKeys : EntryOccupiedRemove(k)
    \/ \E k \in MapKeys, change \in Changes : EntryOccupiedGetMut(k, change)

SpecMap == InitMap /\ [][NextMap]_vars

(***************************************************************************)
(* The schema a selection is rebased on.  The subgraph                     *)
(*   type Query { t: T  q: Query }                                         *)
(*   type T { v1: Int }                                                    *)
(*   type O @interfaceObject { v1: Int }                                   *)
(*   interface J { v1: Int }            (no type of the subgraph is a J)   *)
(* has neither the interface I nor the field v2 of T.  Another subgraph,   *)
(*   type Query { t: T }   type T implements J { v1: Int }                 *)
(*   interface J { v1: Int }                                               *)
(* is where a selection on J comes from.  A type name has the same kind in *)
(* every schema, so that two positions are equal when their type names     *)
(* are.                                                                    *)
(***************************************************************************)
SubgraphFieldTypes ==
    [Query |-> [t |-> "T", q |-> "Query"], T |-> [v1 |-> "Int"], O |-> [v1 |-> "Int"],
     J |-> [v1 |-> "Int"]]

OtherSubgraphName == "other subgraph"

OtherSubgraphFieldTypes ==
    [Query |-> [t |-> "T"], T |-> [v1 |-> "Int"], J |-> [v1 |-> "Int"]]

InterfaceTypes == {"I", "J"}

ScalarTypes == {"Int", "String"}

\* the sources of the query graph: the subgraphs
\*   S1:  type Query { i: I  a: A }     interface I { f: I }
\*        type A implements I { f: A  n: Int }
\*        type B implements I { f: I }
\*   S2:  type Query { a: A }   type A { f: A }   type C { f: C  n: Int }
S1Fields ==
    [Query |-> [i |-> "I", a |-> "A"], I |-> [f |-> "I"],
     A |-> [f |-> "A", n |-> "Int"], B |-> [f |-> "I"]]

S2Fields ==
    [Query |-> [a |-> "A"], A |-> [f |-> "A"], C |-> [f |-> "C", n |-> "Int"]]

\* the fields of the composite types of a schema, with their named types
field_types(schema) ==
    CASE schema = SchemaName -> SchemaFields
      [] schema = SubgraphName -> SubgraphFieldTypes
      [] schema = OtherSubgraphName -> OtherSubgraphFieldTypes
      [] schema = "S1" -> S1Fields
      [] schema = "S2" -> S2Fields

\* the fields each composite type of a schema declares
declared_fields(schema) ==
    [type \in DOMAIN field_types(schema) |-> DOMAIN field_types(schema)[type]]

\* schema.get_type(name) converted to a CompositeTypeDefinitionPosition
get_composite_type(schema, type_name) ==
    IF type_name \in DOMAIN declared_fields(schema) THEN Ok(type_name) ELSE Err(None)

\* CompositeTypeDefinitionPosition::is_interface_type
is_interface_type(type_position) == type_position \in InterfaceTypes

\* the object types of a schema that implement an interface of it
implementers(schema, type_position) ==
    CASE schema = SchemaName /\ type_position = "I" -> {"T"}
      [] schema = OtherSubgraphName /\ type_position = "J" -> {"T"}
      [] schema = "S1" /\ type_position = "I" -> {"A", "B"}
      [] OTHER -> {}

\* ValidFederationSchema::possible_runtime_types
possible_runtime_types(schema, type_position) ==
    IF type_position \notin DOMAIN declared_fields(schema) THEN Err({})
    ELSE IF is_interface_type(type_position)
    THEN Ok(implementers(schema, type_position))
    ELSE Ok({type_position})

\* is_interface_object(obj, schema)
is_interface_object(type_position, schema) ==
    schema = SubgraphName /\ type_position = "O"

\* CompositeTypeDefinitionPosition::field(name): the position of the field of
\* that name the type declares in the schema
field_of(schema, parent_type, field_name) ==
    IF /\ parent_type \in DOMAIN declared_fields(schema)
       /\ field_name \in declared_fields(schema)[parent_type] \cup {TYPENAME_FIELD}
    THEN Ok([parent |-> parent_type, field_name |-> field_name])
    ELSE Err(None)

\* runtime_types_intersect without its first test
runtime_types_share_a_type(type1, type2, schema) ==
    IF possible_runtime_types(schema, type1).ok
          /\ possible_runtime_types(schema, type2).ok
    THEN possible_runtime_types(schema, type1).val
            \cap possible_runtime_types(schema, type2).val # {}
    ELSE FALSE

\* runtime_types_intersect
runtime_types_intersect(type1, type2, schema) ==
    IF type1 = type2 THEN TRUE
    ELSE IF possible_runtime_types(schema, type1).ok
            /\ possible_runtime_types(schema, type2).ok
    THEN possible_runtime_types(schema, type1).val
            \cap possible_runtime_types(schema, type2).val # {}
    ELSE FALSE

(***************************************************************************)
(* rebase_on of the elements, the selections and the selection sets.  A    *)
(* todo!() the code reaches is a panic.                                    *)
(***************************************************************************)
IgnoreError == "IgnoreError"
ThrowError == "ThrowError"

Panic == [ok |-> FALSE, val |-> None, panicked |-> TRUE]

panicked(r) == "panicked" \in DOMAIN r

\* the policy: Ok(None) with IgnoreError, an error with ThrowError
by_policy(error_handling) ==
    IF error_handling = ThrowError THEN Err(None) ELSE Ok(None)

\* every field can be rebased
can_rebase_on_any_type(field, parent_type) == TRUE

\* NormalizedField::can_rebase_on
NormalizedField_can_rebase_on(field, parent_type) ==
    \/ field.data.field_position.parent = parent_type
    \/ is_interface_type(field.data.field_position.parent)

\* NormalizedField::rebase_on
NormalizedField_rebase_on(field, parent_type, schema, error_handling) ==
    IF field.data.field_position.parent = parent_type THEN Ok(Some(field))
    ELSE IF field.data.field_position.field_name = TYPENAME_FIELD
    THEN IF ~possible_runtime_types(schema, parent_type).ok THEN Err(None)
         ELSE IF \E t \in possible_runtime_types(schema, parent_type).val :
                    is_interface_object(t, schema)
         THEN by_policy(error_handling)
         ELSE Ok(Some(NormalizedField_new(
                          [field.data EXCEPT
                              !.field_position = [parent |-> parent_type,
                                                  field_name |-> TYPENAME_FIELD]])))
    ELSE Then(field_of(schema, parent_type, field.data.field_position.field_name),
              LAMBDA parent_field :
                 IF ~parent_field.ok THEN Err(None)
                 ELSE IF NormalizedField_can_rebase_on(field, parent_type)
                 THEN Ok(Some(NormalizedField_new(
                                  [field.data EXCEPT
                                      !.field_position = parent_field.val])))
                 ELSE by_policy(error_handling))

\* NormalizedInlineFragment::can_rebase_on: [can_rebase, condition]
NormalizedInlineFragment_can_rebase_on(inline_fragment, parent_type, parent_schema) ==
    IF inline_fragment.data.type_condition_position = None
    THEN [can_rebase |-> TRUE, condition |-> None]
    ELSE IF /\ get_composite_type(parent_schema,
                                  inline_fragment.data.type_condition_position[1]).ok
            /\ runtime_types_intersect(
                   parent_type, inline_fragment.data.type_condition_position[1],
                   parent_schema)
    THEN [can_rebase |-> TRUE,
          condition |-> inline_fragment.data.type_condition_position]
    ELSE [can_rebase |-> FALSE, condition |-> None]

\* NormalizedInlineFragment::rebase_on
NormalizedInlineFragment_rebase_on(inline_fragment, parent_type, schema, error_handling) ==
    IF inline_fragment.data.parent_type_position = parent_type
    THEN Ok(Some(inline_fragment))
    ELSE Then(NormalizedInlineFragment_can_rebase_on(inline_fragment, parent_type, schema),
              LAMBDA can :
                 IF ~can.can_rebase THEN by_policy(error_handling)
                 ELSE Ok(Some(NormalizedInlineFragment_new(
                                  [inline_fragment.data EXCEPT
                                      !.type_condition_position = can.condition]))))

RECURSIVE NormalizedSelectionSet_rebase_on(_, _, _, _, _)

\* NormalizedFieldSelection::rebase_on
NormalizedFieldSelection_rebase_on(self, parent_type, new_fragments, schema, error_handling) ==
    IF self.field.data.field_position.parent = parent_type THEN Ok(Some(self))
    ELSE Then(NormalizedField_rebase_on(self.field, parent_type, schema, error_handling),
              LAMBDA rebased :
                 IF ~rebased.ok THEN Err(None)
                 ELSE IF rebased.val = None THEN Ok(None)
                 ELSE IF self.selection_set = None
                 THEN Ok(Some([self EXCEPT !.field = rebased.val[1]]))
                 ELSE \* field_position.type_name() is the type the position is in
                      IF ~get_composite_type(
                              schema, rebased.val[1].data.field_position.parent).ok
                 THEN Err(None)
                 ELSE IF rebased.val[1].data.field_position.parent
                            = self.selection_set[1].type_position
                 THEN Ok(Some([self EXCEPT !.field = rebased.val[1]]))
                 ELSE Then(NormalizedSelectionSet_rebase_on(
                               self.selection_set[1],
                               rebased.val[1].data.field_position.parent,
                               new_fragments, schema, error_handling),
                           LAMBDA set :
                              IF panicked(set) THEN Panic
                              ELSE IF ~set.ok THEN Err(None)
                              ELSE IF set.val.selections = <<>> THEN Ok(None)
                              ELSE Ok(Some([self EXCEPT
                                               !.field = rebased.val[1],
                                               !.selection_set = Some(set.val)]))))

\* NormalizedFragmentSpreadSelection::rebase_on; the parent type of a spread
\* is the type of the selection set it is in
NormalizedFragmentSpreadSelection_rebase_on(self, self_parent_type, parent_type, new_fragments, schema, error_handling) ==
    IF self_parent_type = parent_type THEN Ok(Some(self)) ELSE Panic

\* NormalizedInlineFragmentSelection::rebase_on
NormalizedInlineFragmentSelection_rebase_on(self, parent_type, new_fragments, schema, error_handling) ==
    IF self.inline_fragment.data.parent_type_position = parent_type
    THEN Ok(Some(self))
    ELSE Then(NormalizedInlineFragment_rebase_on(
                  self.inline_fragment, parent_type, schema, error_handling),
              LAMBDA rebased :
                 IF ~rebased.ok THEN Err(None)
                 ELSE IF rebased.val = None THEN Ok(None)
                 ELSE Then(IF rebased.val[1].data.type_condition_position # None
                           THEN rebased.val[1].data.type_condition_position[1]
                           ELSE rebased.val[1].data.parent_type_position,
                           LAMBDA rebased_casted_type :
                              IF rebased_casted_type = parent_type
                              THEN Ok(Some([self EXCEPT
                                               !.inline_fragment = rebased.val[1]]))
                              ELSE Then(NormalizedSelectionSet_rebase_on(
                                            self.selection_set, rebased_casted_type,
                                            new_fragments, schema, error_handling),
                                        LAMBDA set :
                                           IF panicked(set) THEN Panic
                                           ELSE IF ~set.ok THEN Err(None)
                                           ELSE IF set.val.selections = <<>>
                                           THEN Ok(None)
                                           ELSE Ok(Some([self EXCEPT
                                                   !.inline_fragment = rebased.val[1],
                                                   !.selection_set = set.val])))))

\* the closure of NormalizedSelectionSet::rebase_on on one selection
rebase_selection(self, selection, parent_type, new_fragments, schema, error_handling) ==
    CASE selection.kind = "Field" ->
            NormalizedFieldSelection_rebase_on(
                selection, parent_type, new_fragments, schema, error_handling)
      [] selection.kind = "FragmentSpread" ->
            NormalizedFragmentSpreadSelection_rebase_on(
                selection, self.type_position, parent_type, new_fragments, schema,
                error_handling)
      [] selection.kind = "InlineFragment" ->
            NormalizedInlineFragmentSelection_rebase_on(
                selection, parent_type, new_fragments, schema, error_handling)

\* collect() into a Result of the rebased selections from position p on: it
\* stops at the first error
RECURSIVE rebased_results(_, _, _, _, _, _)
rebased_results(self, p, parent_type, new_fragments, schema, error_handling) ==
    IF p > Len(self.selections) THEN Ok(<<>>)
    ELSE Then(rebase_selection(self, self.selections[p].value, parent_type,
                               new_fragments, schema, error_handling),
              LAMBDA r :
                 IF panicked(r) THEN Panic
                 ELSE IF ~r.ok THEN Err(None)
                 ELSE Then(rebased_results(self, p + 1, parent_type, new_fragments,
                                           schema, error_handling),
                           LAMBDA rest :
                              IF panicked(rest) THEN Panic
                              ELSE IF ~rest.ok THEN Err(None)
                              ELSE Ok(<<r.val>> \o rest.val)))

\* rebased_selections.insert of every rebased selection there is
RECURSIVE insert_all(_, _)
insert_all(map, selections) ==
    IF selections = <<>> THEN map
    ELSE insert_all(NormalizedSelectionMap_insert(map, Head(selections)),
                    Tail(selections))

\* NormalizedSelectionSet::rebase_on
NormalizedSelectionSet_rebase_on(self, parent_type, new_fragments, schema, error_handling) ==
    Then(rebased_results(self, 1, parent_type, new_fragments, schema, error_handling),
         LAMBDA results :
            IF panicked(results) THEN Panic
            ELSE IF ~results.ok THEN Err(None)
            ELSE Ok([schema |-> self.schema,
                     type_position |-> self.type_position,
                     selections |-> insert_all(NormalizedSelectionMap_new,
                                               flatten(results.val))]))

\* NormalizedSelectionSet::normalize: NormalizedSelection::normalize is todo!()
NormalizedSelectionSet_normalize(self, parent_type) ==
    IF self.selections = <<>>
    THEN Ok([schema |-> self.schema, type_position |-> self.type_position,
             selections |-> NormalizedSelectionMap_new])
    ELSE Panic

\* every selection set is worth using
always_worth_using(selection_set) == TRUE

\* a selection set is worth using when it has several selections
worth_using_if_many(selection_set) == Len(selection_set.selections) > 1

\* NamedFragments::is_selection_set_worth_using
is_selection_set_worth_using(selection_set) ==
    IF Len(selection_set.selections) = 0 THEN FALSE
    ELSE IF Len(selection_set.selections) = 1
    THEN IF selection_set.selections[1].value.kind = "Field"
         THEN selection_set.selections[1].value.selection_set # None
         ELSE TRUE
    ELSE TRUE

\* the closure NamedFragments::rebase_on passes to map_in_dependency_order:
\* the NormalizedFragment it builds is dropped, its value is None
rebase_on_mapper(fragment, new_fragments, schema) ==
    Then(get_composite_type(schema, fragment.type_condition_position),
         LAMBDA rebased_type :
            IF ~rebased_type.ok THEN Ok(None)
            ELSE Then(NormalizedSelectionSet_rebase_on(
                          fragment.selection_set, rebased_type.val, new_fragments,
                          schema, IgnoreError),
                      LAMBDA rebased_selection :
                         IF panicked(rebased_selection) THEN Panic
                         ELSE IF ~rebased_selection.ok THEN Ok(None)
                         ELSE IF panicked(NormalizedSelectionSet_normalize(
                                              rebased_selection.val, rebased_type.val))
                         THEN Panic
                         ELSE Ok(None)))

(***************************************************************************)
(* NamedFragments::map_in_dependency_order as the steps of its loops.      *)
(***************************************************************************)
FragmentNames == <<"A", "B", "C", "D">>

\* the body of a fragment on Query that spreads the fragments `uses`: the
\* first name at the top level, the second inside an inline fragment, the
\* others, twice, inside a field
fragment_body(uses) ==
    LET spread(n) ==
            CASE n = 1 -> <<RawFragmentSpread(FragmentNames[n], <<>>)>>
              [] n = 2 -> <<RawInlineFragment(
                                "Query", Some("Query"), <<Skip("a")>>,
                                <<RawFragmentSpread(FragmentNames[n], <<>>)>>)>>
              [] OTHER -> <<RawField("Query", "q", None, <<>>,
                                     <<RawFragmentSpread(FragmentNames[n], <<>>),
                                       RawFragmentSpread(FragmentNames[n],
                                                         <<Skip("a")>>)>>)>>
    IN <<Leaf("Query", TYPENAME_FIELD)>>
       \o flatten([n \in 1..Len(FragmentNames) |->
                      IF FragmentNames[n] \in uses THEN spread(n) ELSE <<>>])

\* the relations "spreads" without cycle on the names S
AcyclicSpreads(S) ==
    {uses \in [S -> SUBSET S] :
        \E rank \in [S -> 1..Cardinality(S)] :
            \A a \in S : \A b \in uses[a] : rank[b] < rank[a]}

\* the fragment definitions of a document whose fragments spread one another
\* as `uses` says
fragment_definitions(uses) ==
    LET names == SelectSeq(FragmentNames, LAMBDA n : n \in DOMAIN uses)
    IN [f \in 1..Len(names) |->
           RawFragment(names[f], "Query", fragment_body(uses[names[f]]))]

\* NormalizedFragment::new
NormalizedFragment_new(schema, name, type_condition_position, directives, selection_set) ==
    [schema |-> schema, name |-> name,
     type_condition_position |-> type_condition_position,
     directives |-> directives, selection_set |-> selection_set]

\* the NormalizedFragments of the definitions from position f on, their
\* bodies normalized with their spreads preserved: [fragments, id]
RECURSIVE normalized_fragments(_, _, _)
normalized_fragments(definitions, f, id) ==
    IF f > Len(definitions) THEN [fragments |-> <<>>, id |-> id]
    ELSE Then(normalize_and_expand_fragments(
                  definitions[f].selection_set, definitions, PreserveFragmentSpread, id),
              LAMBDA r :
                 Then(normalized_fragments(definitions, f + 1, r.id),
                      LAMBDA rest :
                         [fragments |->
                              <<NormalizedFragment_new(
                                    SchemaName, definitions[f].name,
                                    type_condition(definitions[f]),
                                    definitions[f].directives, r.val)>>
                              \o rest.fragments,
                          id |-> rest.id]))

\* NormalizedSelectionSet::collect_used_fragment_names and
\* NormalizedSelection::collect_used_fragment_names: the name of every
\* spread, as many times as it occurs
RECURSIVE collect_used_fragment_names(_)
collect_used_fragment_names(selection_set) ==
    LET of_selection(selection) ==
            CASE selection.kind = "Field" ->
                    IF selection.selection_set # None
                    THEN collect_used_fragment_names(selection.selection_set[1])
                    ELSE <<>>
              [] selection.kind = "InlineFragment" ->
                    collect_used_fragment_names(selection.selection_set)
              [] selection.kind = "FragmentSpread" ->
                    <<selection.fragment_spread.data.fragment_name>>
    IN flatten([p \in 1..Len(selection_set.selections) |->
                   of_selection(selection_set.selections[p].value)])

\* NormalizedFragment::fragment_usages: name -> number of spreads
fragment_usages(fragment) ==
    LET used == collect_used_fragment_names(fragment.selection_set)
    IN [name \in range(used) |->
           Cardinality({n \in 1..Len(used) : used[n] = name})]

\* HashMap::insert
HashMap_insert(table, name, value) ==
    [n \in DOMAIN table \cup {name} |-> IF n = name THEN value ELSE table[n]]

\* a retain that removes nothing
HashMap_kept(table, name) == table

\* HashMap::retain, for one element: it stays or goes
HashMap_without(table, name) ==
    [n \in DOMAIN table \ {name} |-> table[n]]

\* every fragment can be removed at once
can_always_remove(info, mapped, removed) == TRUE

\* can_remove: every fragment `info` depends on is mapped or removed
can_remove(info, mapped, removed) ==
    \A n \in info.depends_on : n \in DOMAIN mapped \/ n \in removed

\* what a mapper may return for a fragment: the fragment mapped, or None
mapped_by(fragment) == [fragment EXCEPT !.schema = "mapped"]

\* the results of the closure map_in_dependency_order is called with: of any
\* closure, or of that of NamedFragments::rebase_on(schema)
mapper_results(fragment, table) ==
    CASE mapper = "any" -> {Ok(None), Ok(Some(mapped_by(fragment)))}
      [] mapper = "rebase_on" ->
            {rebase_on_mapper(fragment, table, SubgraphName)}

\* the first loop: fragments_map gets every fragment with the names it uses
Collect ==
    /\ pc = "collect"
    /\ fragments_map' =
           [name \in DOMAIN named_fragments |->
               [fragment |-> named_fragments[name],
                depends_on |-> DOMAIN fragment_usages(named_fragments[name])]]
    /\ removed_fragments' = {}
    /\ mapped_fragments' = <<>>
    /\ pc' = "while"
    /\ UNCHANGED <<mapper, named_fragments, retained, passes, calls>>
    /\ UNCHANGED but_ordering

\* while !fragments_map.is_empty(): a pass of retain begins
BeginPass ==
    /\ pc = "while"
    /\ DOMAIN fragments_map # {}
    /\ retained' = DOMAIN fragments_map
    /\ passes' = Append(passes, Cardinality(DOMAIN fragments_map))
    /\ pc' = "retain"
    /\ UNCHANGED <<mapper, named_fragments, fragments_map, mapped_fragments,
                   removed_fragments, calls>>
    /\ UNCHANGED but_ordering

\* the closure of retain on one element, in the order the HashMap yields them
Retain(name) ==
    /\ pc = "retain"
    /\ name \in retained
    /\ LET info == fragments_map[name]
       IN IF can_remove(info, mapped_fragments, removed_fragments)
          THEN \E outcome \in mapper_results(info.fragment, mapped_fragments) :
                  /\ calls' = Append(calls, [fragment |-> name,
                                             depends_on |-> info.depends_on,
                                             table |-> mapped_fragments,
                                             removed |-> removed_fragments,
                                             panicked |-> panicked(outcome),
                                             mapped |-> outcome.val])
                  /\ IF panicked(outcome)
                     THEN /\ pc' = "panicked"
                          /\ UNCHANGED <<fragments_map, mapped_fragments,
                                         removed_fragments, retained>>
                     ELSE /\ IF outcome.val # None
                             THEN /\ mapped_fragments' =
                                         HashMap_insert(mapped_fragments,
                                                        outcome.val[1].name,
                                                        outcome.val[1])
                                  /\ UNCHANGED removed_fragments
                             ELSE /\ removed_fragments' = removed_fragments \cup {name}
                                  /\ UNCHANGED mapped_fragments
                          /\ fragments_map' = HashMap_without(fragments_map, name)
                          /\ retained' = retained \ {name}
                          /\ pc' = IF retained' = {} THEN "while" ELSE "retain"
          ELSE /\ retained' = retained \ {name}
               /\ pc' = IF retained' = {} THEN "while" ELSE "retain"
               /\ UNCHANGED <<fragments_map, mapped_fragments, removed_fragments, calls>>
    /\ UNCHANGED <<mapper, named_fragments, passes>>
    /\ UNCHANGED but_ordering

\* the loop is left: None or Some(mapped_fragments) is returned
Return ==
    /\ pc = "while"
    /\ DOMAIN fragments_map = {}
    /\ pc' = "done"
    /\ UNCHANGED <<mapper, named_fragments, fragments_map, mapped_fragments,
                   removed_fragments, retained, passes, calls>>
    /\ UNCHANGED but_ordering

\* what map_in_dependency_order has returned
returned_fragments ==
    IF DOMAIN mapped_fragments = {} THEN None ELSE Some(mapped_fragments)

\* map_in_dependency_order is called with `closure` on the NamedFragments of
\* the fragment definitions of a document
ordering_of(closure, definitions) ==
    /\ Then(normalized_fragments(definitions, 1, 1),
            LAMBDA r :
               /\ NEXT_ID = r.id
               /\ named_fragments =
                      [name \in {definitions[f].name : f \in 1..Len(definitions)} |->
                          r.fragments[CHOOSE f \in 1..Len(r.fragments) :
                                         r.fragments[f].name = name]])
    /\ mapper = closure
    /\ fragments_map = <<>>
    /\ mapped_fragments = <<>>
    /\ removed_fragments = {}
    /\ retained = {}
    /\ passes = <<>>
    /\ calls = <<>>
    /\ pc = "collect"

\* the sets of fragments that spread one another without cycle
SpreadingFragments ==
    UNION {{fragment_definitions(uses) : uses \in AcyclicSpreads(S)} :
              S \in SUBSET range(SubSeq(FragmentNames, 1, MaxFragments))}

InitOrder ==
    /\ selection_sets_of_document(NoDocument)
    /\ no_call
    /\ new_map
    /\ no_application
    /\ \E definitions \in SpreadingFragments : ordering_of("any", definitions)

NextOrder == Collect \/ BeginPass \/ (\E name \in range(FragmentNames) : Retain(name)) \/ Return

SpecOrder == InitOrder /\ [][NextOrder]_vars

\* the loops of map_in_dependency_order run on: no step of it waits
SpecOrderFair == SpecOrder /\ WF_vars(NextOrder)

\* the bodies of the fragments that are rebased, with their type conditions:
\*   on I { v1 }   on T { v1 }   on T { v1 v2 }   on Query { t { v1 } }
RebasedBodies ==
    {[condition |-> "I", selections |-> <<Leaf("I", "v1")>>],
     [condition |-> "T", selections |-> <<Leaf("T", "v1")>>],
     [condition |-> "T", selections |-> <<Leaf("T", "v1"), Leaf("T", "v2")>>],
     [condition |-> "Query",
      selections |-> <<RawField("Query", "t", None, <<>>, <<Leaf("T", "v1")>>)>>]}

\* the sets of fragments that are rebased: each has one of the bodies and
\* may spread, at the end of its body, the fragment of the next name
RebasedFragments ==
    UNION {{[f \in 1..Len(names) |->
                RawFragment(
                    names[f], body[f].condition,
                    body[f].selections
                        \o (IF f < Len(names) /\ f \in spreading
                            THEN <<RawFragmentSpread(names[f + 1], <<>>)>>
                            ELSE <<>>))] :
               body \in [1..Len(names) -> RebasedBodies],
               spreading \in SUBSET (1..Len(names))} :
              names \in {SubSeq(FragmentNames, 1, n) : n \in 0..(MaxFragments - 1)}}

\* NamedFragments::rebase_on(schema), schema the subgraph's
InitRebase ==
    /\ selection_sets_of_document(NoDocument)
    /\ no_call
    /\ new_map
    /\ no_application
    /\ \E definitions \in RebasedFragments : ordering_of("rebase_on", definitions)

SpecRebase == InitRebase /\ [][NextOrder]_vars

(***************************************************************************)
(* NamedFragments::is_selection_set_worth_using on the bodies a rebase may *)
(* leave.                                                                  *)
(***************************************************************************)
\* what a body on Query may select besides QuerySelections
MoreQuerySelections ==
    {RawField("Query", TYPENAME_FIELD, Some("t"), <<Skip("a")>>, <<>>),
     RawFragmentSpread("FQ", <<>>)}

\* the bodies: the selection sets on T and on Query of at most MaxSel
\* selections, normalized with their spreads preserved
Bodies ==
    LET normalized_body(ty, selections) ==
            normalize_and_expand_fragments(
                [ty |-> ty, selections |-> selections], AllFragments,
                PreserveFragmentSpread, 1)
        written(ty) ==
            {<<>>} \cup SeqsUpTo(IF ty = "T" THEN TSelections
                                 ELSE QuerySelections \cup MoreQuerySelections,
                                 MaxSel)
    IN UNION {{normalized_body(ty, selections).val :
                  selections \in {w \in written(ty) : normalized_body(ty, w).ok}} :
                 ty \in {"T", "Query"}}

\* is_selection_set_worth_using(&rebased_selection)
IsWorthUsing ==
    /\ arguments # None
    /\ result = None
    /\ result' = Some(is_selection_set_worth_using(arguments[1]))
    /\ UNCHANGED arguments
    /\ UNCHANGED but_applying

InitWorth ==
    /\ selection_sets_of_document(NoDocument)
    /\ NEXT_ID = 1
    /\ no_call
    /\ new_map
    /\ no_ordering
    /\ \E body \in Bodies : arguments = Some(body)
    /\ result = None

NextWorth == IsWorthUsing

SpecWorth == InitWorth /\ [][NextWorth]_vars

(***************************************************************************)
(* NormalizedSelectionSet::rebase_on of a selection set of the supergraph  *)
(* on a parent type of the subgraph, under either policy.                  *)
(***************************************************************************)
\* the composite types of the subgraph a selection set is rebased on
RebaseParents == DOMAIN field_types(SubgraphName)

\* selection_set.rebase_on(&parent_type, &named_fragments, &schema, error_handling)
RebaseOn ==
    /\ arguments # None
    /\ result = None
    /\ result' = Some(NormalizedSelectionSet_rebase_on(
                          arguments[1].selection_set, arguments[1].parent_type,
                          <<>>, SubgraphName, arguments[1].error_handling))
    /\ UNCHANGED arguments
    /\ UNCHANGED but_applying

InitRebaseSet ==
    /\ selection_sets_of_document(NoDocument)
    /\ NEXT_ID = 1
    /\ no_call
    /\ new_map
    /\ no_ordering
    /\ \E body \in Bodies :
          \E parent_type \in RebaseParents :
             \E error_handling \in {IgnoreError, ThrowError} :
                arguments = Some([selection_set |-> body,
                                  parent_type |-> parent_type,
                                  error_handling |-> error_handling])
    /\ result = None

NextRebaseSet == RebaseOn

SpecRebaseSet == InitRebaseSet /\ [][NextRebaseSet]_vars

(***************************************************************************)
(* The query graph and QueryGraph::advance_possible_runtime_types.         *)
(***************************************************************************)
SchemaType(source, name) ==
    [type_ |-> [kind |-> "SchemaType", name |-> name], source |-> source]

FieldCollection(source, parent, field_name) ==
    [kind |-> "FieldCollection", source |-> source,
     field_definition_position |-> [parent |-> parent, field_name |-> field_name]]

Downcast(source, from, to) ==
    [kind |-> "Downcast", source |-> source, from_type_position |-> from,
     to_type_position |-> to]

KeyResolution == [kind |-> "KeyResolution"]

RootTypeResolution == [kind |-> "RootTypeResolution", root_kind |-> "Query"]

SubgraphEnteringTransition == [kind |-> "SubgraphEnteringTransition"]

InterfaceObjectFakeDownCast(source, from, to) ==
    [kind |-> "InterfaceObjectFakeDownCast", source |-> source,
     from_type_position |-> from, to_type_name |-> to]

\* the nodes: the federated root, then one node for every type of a source
GraphNodes ==
    <<[type_ |-> [kind |-> "FederatedRootType", name |-> "Query"], source |-> "federated"],
      SchemaType("S1", "Query"), SchemaType("S1", "I"), SchemaType("S1", "A"),
      SchemaType("S1", "B"), SchemaType("S1", "Int"),
      SchemaType("S2", "Query"), SchemaType("S2", "A"), SchemaType("S2", "C"),
      SchemaType("S2", "Int")>>

node_of(source, name) ==
    CHOOSE n \in 1..Len(GraphNodes) : GraphNodes[n] = SchemaType(source, name)

\* an edge of the graph: its endpoints and its weight
Edge(head, tail, transition) ==
    [head |-> head, tail |-> tail, weight |-> [transition |-> transition]]

\* the edge of a field of a type of a source
field_edge(source, parent, field_name) ==
    Edge(node_of(source, parent),
         node_of(source, field_types(source)[parent][field_name]),
         FieldCollection(source, parent, field_name))

GraphEdges ==
    <<Edge(1, node_of("S1", "Query"), SubgraphEnteringTransition),
      Edge(1, node_of("S2", "Query"), SubgraphEnteringTransition),
      field_edge("S1", "Query", "i"), field_edge("S1", "Query", "a"),
      field_edge("S1", "I", "f"), field_edge("S1", "A", "f"),
      field_edge("S1", "A", "n"), field_edge("S1", "B", "f"),
      field_edge("S2", "Query", "a"), field_edge("S2", "A", "f"),
      field_edge("S2", "C", "f"), field_edge("S2", "C", "n"),
      Edge(node_of("S1", "I"), node_of("S1", "A"), Downcast("S1", "I", "A")),
      Edge(node_of("S1", "I"), node_of("S1", "B"), Downcast("S1", "I", "B")),
      Edge(node_of("S1", "A"), node_of("S1", "I"), Downcast("S1", "A", "I")),
      Edge(node_of("S1", "A"), node_of("S2", "A"), KeyResolution),
      Edge(node_of("S2", "A"), node_of("S1", "A"), KeyResolution),
      Edge(node_of("S2", "A"), node_of("S1", "I"), KeyResolution),
      Edge(node_of("S2", "C"), node_of("S2", "C"), KeyResolution),
      Edge(node_of("S1", "A"), node_of("S1", "Int"), KeyResolution),
      Edge(node_of("S2", "A"), 1, KeyResolution),
      Edge(node_of("S1", "Query"), node_of("S2", "Query"), RootTypeResolution),
      Edge(node_of("S2", "Query"), node_of("S1", "Query"), RootTypeResolution),
      Edge(node_of("S2", "A"), node_of("S2", "A"),
           InterfaceObjectFakeDownCast("S2", "A", "B"))>>

\* the object types of the supergraph
ObjectTypes == {"Query", "A", "B", "C"}

\* QueryGraph::schema_by_source
schema_by_source(source) ==
    IF source \in {"S1", "S2"} THEN Ok(source) ELSE Err(None)

\* CompositeTypeDefinitionPosition::try_from of an output type position
is_composite_position(name) == name \notin ScalarTypes

\* possible_runtime_type.field(name).try_get(schema): the definition of the
\* field, if the type is of the schema and declares it
try_get_field(schema, type_name, field_name) ==
    IF /\ type_name \in DOMAIN field_types(schema)
       /\ field_name \in DOMAIN field_types(schema)[type_name]
    THEN Some([ty |-> field_types(schema)[type_name][field_name]])
    ELSE None

\* a loop that keeps the runtime types that lack the field
collect_field_keeping(schema, possible_runtime_type, field_name) ==
    IF try_get_field(schema, possible_runtime_type, field_name) = None
    THEN Ok({possible_runtime_type})
    ELSE possible_runtime_types(
             schema, try_get_field(schema, possible_runtime_type, field_name)[1].ty)

\* the body of the loop of the FieldCollection case for one runtime type
collect_field(schema, possible_runtime_type, field_name) ==
    IF try_get_field(schema, possible_runtime_type, field_name) = None THEN Ok({})
    ELSE Then(try_get_field(schema, possible_runtime_type, field_name)[1].ty,
              LAMBDA named_type :
                 IF ~is_composite_position(named_type) THEN Err({})
                 ELSE IF ~get_composite_type(schema, named_type).ok THEN Err({})
                 ELSE possible_runtime_types(schema, named_type))

\* the tail's runtime types narrowed by the input set
key_resolution_narrowed(schema, tail_type, possible) ==
    IF ~possible_runtime_types(schema, tail_type).ok THEN Err({})
    ELSE Ok(possible_runtime_types(schema, tail_type).val \cap possible)

\* the KeyResolution case
key_resolution(schema, tail_type, possible) ==
    possible_runtime_types(schema, tail_type)

\* QueryGraph::advance_possible_runtime_types
advance_possible_runtime_types(possible, edge) ==
    IF edge = None THEN Ok(possible)
    ELSE IF edge[1] \notin 1..Len(GraphEdges) THEN Err({})
    ELSE Then([weight |-> GraphEdges[edge[1]].weight,
               tail_weight |-> GraphNodes[GraphEdges[edge[1]].tail]],
              LAMBDA e :
        IF e.tail_weight.type_.kind # "SchemaType" THEN Err({})
        ELSE CASE e.weight.transition.kind = "FieldCollection" ->
                    IF ~is_composite_position(e.tail_weight.type_.name) THEN Ok({})
                    ELSE IF ~schema_by_source(e.weight.transition.source).ok
                    THEN Err({})
                    ELSE IF \E t \in possible :
                               ~collect_field(
                                    e.weight.transition.source, t,
                                    e.weight.transition.field_definition_position
                                        .field_name).ok
                    THEN Err({})
                    ELSE Ok(UNION {collect_field(
                                       e.weight.transition.source, t,
                                       e.weight.transition.field_definition_position
                                           .field_name).val : t \in possible})
               [] e.weight.transition.kind = "Downcast" ->
                    IF ~schema_by_source(e.weight.transition.source).ok THEN Err({})
                    ELSE IF ~possible_runtime_types(
                                 e.weight.transition.source,
                                 e.weight.transition.to_type_position).ok
                    THEN Err({})
                    ELSE Ok(possible_runtime_types(
                                e.weight.transition.source,
                                e.weight.transition.to_type_position).val
                            \cap possible)
               [] e.weight.transition.kind = "KeyResolution" ->
                    IF ~is_composite_position(e.tail_weight.type_.name) THEN Err({})
                    ELSE IF ~schema_by_source(e.tail_weight.source).ok THEN Err({})
                    ELSE key_resolution(e.tail_weight.source,
                                        e.tail_weight.type_.name, possible)
               [] e.weight.transition.kind \in {"RootTypeResolution",
                                                "SubgraphEnteringTransition"} ->
                    IF e.tail_weight.type_.name \in InterfaceTypes \cup ScalarTypes
                    THEN Err({})
                    ELSE Ok({e.tail_weight.type_.name})
               [] e.weight.transition.kind = "InterfaceObjectFakeDownCast" ->
                    Ok(possible))

\* advance_possible_runtime_types(&possible_runtime_types, edge)
Advance ==
    /\ arguments # None
    /\ result = None
    /\ result' = Some(advance_possible_runtime_types(
                          arguments[1].possible_runtime_types, arguments[1].edge))
    /\ UNCHANGED arguments
    /\ UNCHANGED but_applying

InitAdvance ==
    /\ selection_sets_of_document(NoDocument)
    /\ NEXT_ID = 1
    /\ no_call
    /\ new_map
    /\ no_ordering
    /\ \E possible \in SUBSET ObjectTypes :
          \E edge \in {None} \cup {Some(e) : e \in 1..(Len(GraphEdges) + 1)} :
              arguments = Some([possible_runtime_types |-> possible, edge |-> edge])
    /\ result = None

NextAdvance == Advance

SpecAdvance == InitAdvance /\ [][NextAdvance]_vars

(***************************************************************************)
(* normalize_operation and the conversion of its result back to an         *)
(* Operation.  The unwrap() of an error is a panic.                        *)
(***************************************************************************)
PanicId(id) == [ok |-> FALSE, val |-> None, id |-> id, panicked |-> TRUE]

\* NormalizedFragment::normalize
NormalizedFragment_normalize(fragment, id) ==
    IF ~is_composite_type(type_condition(fragment)) THEN ErrId(id)
    ELSE Then(normalize_and_expand_fragments(
                  fragment.selection_set, <<>>, PreserveFragmentSpread, id),
              LAMBDA r :
                 IF ~r.ok THEN ErrId(r.id)
                 ELSE OkId(NormalizedFragment_new(
                               SchemaName, fragment.name, type_condition(fragment),
                               fragment.directives, r.val),
                           r.id))

\* fragments.iter().map(|(name, fragment)| (name, normalize(..).unwrap()))
\* .collect() from position f on: the table name -> NormalizedFragment
RECURSIVE normalize_fragments(_, _, _)
normalize_fragments(definitions, f, id) ==
    IF f > Len(definitions) THEN OkId(<<>>, id)
    ELSE Then(NormalizedFragment_normalize(definitions[f], id),
              LAMBDA r :
                 IF ~r.ok THEN PanicId(r.id)
                 ELSE Then(normalize_fragments(definitions, f + 1, r.id),
                           LAMBDA rest :
                              IF ~rest.ok THEN rest
                              ELSE OkId(HashMap_insert(rest.val, definitions[f].name,
                                                       r.val),
                                        rest.id)))

\* normalize_operation
normalize_operation(selection_set, definitions, interface_objects, id) ==
    Then(normalize_and_expand_fragments(
             selection_set, definitions, InlineFragmentSpread, id),
         LAMBDA n :
            IF ~n.ok THEN ErrId(n.id)
            ELSE Then(optimize_sibling_typenames(n.val, interface_objects),
                      LAMBDA o :
                         IF ~o.ok THEN ErrId(n.id)
                         ELSE Then(normalize_fragments(definitions, 1, n.id),
                                   LAMBDA f :
                                      IF ~f.ok THEN f
                                      ELSE OkId([schema |-> SchemaName,
                                                 root_kind |-> "Query",
                                                 selection_set |-> o.val,
                                                 fragments |-> f.val],
                                                f.id))))

\* TryFrom<&NormalizedOperation> for Operation
Operation_try_from(normalized_operation) ==
    [operation_type |-> normalized_operation.root_kind,
     selection_set |-> SelectionSet_try_from(normalized_operation.selection_set)]

\* the operations { t { .. } } of fields of T without directives
PlainSelections ==
    {Leaf("T", "v1"), Leaf("T", "v2"), Leaf("T", TYPENAME_FIELD)}

PlainDocuments == {Under(body) : body \in SeqsUpTo(PlainSelections, MaxSel)}

\* normalize_operation(&operation, &fragments, &schema, &interface_objects)
NormalizeOperation ==
    /\ arguments # None
    /\ result = None
    /\ Then(normalize_operation(arguments[1].operation, arguments[1].fragments,
                                arguments[1].interface_objects, NEXT_ID),
            LAMBDA r : /\ result' = Some([ok |-> r.ok, val |-> r.val,
                                          panicked |-> "panicked" \in DOMAIN r])
                       /\ NEXT_ID' = r.id)
    /\ UNCHANGED arguments
    /\ UNCHANGED but_applying_and_ids

InitOperation ==
    /\ selection_sets_of_document(NoDocument)
    /\ NEXT_ID = 1
    /\ no_call
    /\ new_map
    /\ no_ordering
    /\ \E selections \in BodyDocuments :
          \E interface_objects \in InterfaceObjectSets :
             arguments = Some([operation |-> [ty |-> "Query", selections |-> selections],
                               fragments |-> used_fragments(selections),
                               interface_objects |-> interface_objects])
    /\ result = None

NextOperation == NormalizeOperation

SpecOperation == InitOperation /\ [][NextOperation]_vars

\* two operations are normalized with normalize_operation and converted
\* with Operation::try_from
NormalizeAndConvert ==
    /\ arguments # None
    /\ result = None
    /\ Then(normalize_operation(arguments[1].first, <<>>, {}, NEXT_ID),
            LAMBDA r1 :
               Then(normalize_operation(arguments[1].second, <<>>, {}, r1.id),
                    LAMBDA r2 :
                       /\ r1.ok
                       /\ r2.ok
                       /\ result' = Some([normalized |-> <<r1.val, r2.val>>,
                                          converted |-> <<Operation_try_from(r1.val),
                                                          Operation_try_from(r2.val)>>])
                       /\ NEXT_ID' = r2.id))
    /\ UNCHANGED arguments
    /\ UNCHANGED but_applying_and_ids

InitConvert ==
    /\ selection_sets_of_document(NoDocument)
    /\ NEXT_ID = 1
    /\ no_call
    /\ new_map
    /\ no_ordering
    /\ \E first \in PlainDocuments :
          \E second \in PlainDocuments :
             arguments = Some([first |-> [ty |-> "Query", selections |-> first],
                               second |-> [ty |-> "Query", selections |-> second]])
    /\ result = None

NextConvert == NormalizeAndConvert

SpecConvert == InitConvert /\ [][NextConvert]_vars

(***************************************************************************)
(* normalize_and_expand_fragments on a selection set, in either mode of    *)
(* FragmentSpreadNormalizationOption.                                      *)
(***************************************************************************)
\* the selection sets on T and on Query of at most MaxSel selections, a
\* spread of FI without directives among those on T
WrittenSelectionSets ==
    {[ty |-> "T", selections |-> selections] :
        selections \in SeqsUpTo(TSelections \cup {RawFragmentSpread("FI", <<>>)}, MaxSel)}
    \cup {[ty |-> "Query", selections |-> selections] :
             selections \in SeqsUpTo(QuerySelections, MaxSel)}

\* NormalizedSelectionSet::normalize_and_expand_fragments(&selection_set,
\* &fragments, &schema, &option)
NormalizeAndExpandFragments ==
    /\ arguments # None
    /\ result = None
    /\ Then(normalize_and_expand_fragments(
                arguments[1].selection_set, arguments[1].fragments,
                arguments[1].option, NEXT_ID),
            LAMBDA r : /\ result' = Some([ok |-> r.ok, val |-> r.val])
                       /\ NEXT_ID' = r.id)
    /\ UNCHANGED arguments
    /\ UNCHANGED but_applying_and_ids

InitNormalize ==
    /\ selection_sets_of_document(NoDocument)
    /\ NEXT_ID = 1
    /\ no_call
    /\ new_map
    /\ no_ordering
    /\ \E selection_set \in WrittenSelectionSets :
          \E option \in {InlineFragmentSpread, PreserveFragmentSpread} :
             arguments = Some([selection_set |-> selection_set,
                               fragments |-> used_fragments(selection_set.selections),
                               option |-> option])
    /\ result = None

NextNormalize == NormalizeAndExpandFragments

SpecNormalize == InitNormalize /\ [][NextNormalize]_vars

(***************************************************************************)
(* NormalizedField::rebase_on and NormalizedInlineFragment::rebase_on of   *)
(* an element of the supergraph on a type of the subgraph.                 *)
(***************************************************************************)
\* the fields of the supergraph, with and without an alias and a directive
RebasedFields ==
    {NormalizedField_new([schema |-> SchemaName,
                          field_position |-> [parent |-> parent, field_name |-> name],
                          alias |-> alias,
                          arguments |-> <<>>,
                          directives |-> directives]) :
        parent \in CompositeTypes,
        name \in {"t", "i", "q", "v1", "v2", TYPENAME_FIELD},
        alias \in {None, Some("a")},
        directives \in {<<>>, <<Skip("a")>>}}

\* field.rebase_on(&parent_type, &schema, error_handling)
RebaseField ==
    /\ arguments # None
    /\ "field" \in DOMAIN arguments[1]
    /\ result = None
    /\ result' = Some(NormalizedField_rebase_on(
                          arguments[1].field, arguments[1].parent_type,
                          SubgraphName, arguments[1].error_handling))
    /\ UNCHANGED arguments
    /\ UNCHANGED but_applying

\* the inline fragments of the supergraph, and ... on J { .. } in a selection
\* set on T of the other subgraph
RebasedInlineFragments ==
    {NormalizedInlineFragment_new([schema |-> SchemaName,
                                   parent_type_position |-> parent,
                                   type_condition_position |-> condition,
                                   directives |-> directives,
                                   selection_id |-> 1]) :
        parent \in CompositeTypes,
        condition \in {None} \cup {Some(c) : c \in CompositeTypes},
        directives \in {<<>>, <<Skip("a")>>, <<Defer>>}}
    \cup {NormalizedInlineFragment_new([schema |-> OtherSubgraphName,
                                        parent_type_position |-> "T",
                                        type_condition_position |-> Some("J"),
                                        directives |-> directives,
                                        selection_id |-> 1]) :
              directives \in {<<>>, <<Skip("a")>>, <<Defer>>}}

\* inline_fragment.rebase_on(&parent_type, &schema, error_handling)
RebaseInlineFragment ==
    /\ arguments # None
    /\ "inline_fragment" \in DOMAIN arguments[1]
    /\ result = None
    /\ result' = Some(NormalizedInlineFragment_rebase_on(
                          arguments[1].inline_fragment, arguments[1].parent_type,
                          SubgraphName, arguments[1].error_handling))
    /\ UNCHANGED arguments
    /\ UNCHANGED but_applying

InitRebaseElement ==
    /\ selection_sets_of_document(NoDocument)
    /\ NEXT_ID = 1
    /\ no_call
    /\ new_map
    /\ no_ordering
    /\ \E parent_type \in RebaseParents :
          \E error_handling \in {IgnoreError, ThrowError} :
             \/ \E field \in {f \in RebasedFields :
                                 f.data.field_position.field_name
                                     \in declared_fields(SchemaName)
                                             [f.data.field_position.parent]
                                         \cup {TYPENAME_FIELD}} :
                   arguments = Some([field |-> field, parent_type |-> parent_type,
                                     error_handling |-> error_handling])
             \/ \E inline_fragment \in RebasedInlineFragments :
                   arguments = Some([inline_fragment |-> inline_fragment,
                                     parent_type |-> parent_type,
                                     error_handling |-> error_handling])
    /\ result = None

NextRebaseElement == RebaseField \/ RebaseInlineFragment

SpecRebaseElement == InitRebaseElement /\ [][NextRebaseElement]_vars

(***************************************************************************)
(* NormalizedInlineFragmentSelection::rebase_on of an inline fragment with *)
(* its sub-selections.                                                     *)
(***************************************************************************)
\* what is written in an inline fragment that narrows to a type
written_in(type) ==
    CASE type = "T" -> {<<Leaf("T", "v1")>>, <<Leaf("T", "v2")>>,
                        <<Leaf("T", "v1"), Leaf("T", "v2")>>,
                        <<Leaf("T", TYPENAME_FIELD)>>}
      [] type = "I" -> {<<Leaf("I", "v1")>>, <<Leaf("I", TYPENAME_FIELD)>>}
      [] type = "Query" -> {<<RawField("Query", "t", None, <<>>, <<Leaf("T", "v1")>>)>>,
                            <<RawField("Query", "t", None, <<>>, <<Leaf("T", "v2")>>)>>,
                            <<RawField("Query", "__schema", None, <<>>, <<>>)>>,
                            <<Leaf("Query", TYPENAME_FIELD)>>}

\* the inline fragments written in a selection set on a type
WrittenInlineFragments(parent) ==
    {RawInlineFragment(parent, written.condition, written.directives, written.body) :
        written \in UNION {[condition : {condition}, directives : {<<Skip("a")>>, <<Defer>>},
                            body : written_in(IF condition = None THEN parent
                                              ELSE condition[1])] :
                              condition \in {None} \cup (IF parent = "Query"
                                                         THEN {Some("Query")}
                                                         ELSE {Some("T"), Some("I")})}}

\* the inline fragment selections normalization makes of them
RebasedInlineFragmentSelections ==
    UNION {{normalize_and_expand_fragments(
                [ty |-> parent, selections |-> <<written>>], <<>>,
                InlineFragmentSpread, 1).val.selections[1].value :
               written \in WrittenInlineFragments(parent)} :
              parent \in CompositeTypes}

\* selection.rebase_on(&parent_type, &named_fragments, &schema, error_handling)
RebaseInlineFragmentSelection ==
    /\ arguments # None
    /\ result = None
    /\ result' = Some(NormalizedInlineFragmentSelection_rebase_on(
                          arguments[1].selection, arguments[1].parent_type, <<>>,
                          SubgraphName, arguments[1].error_handling))
    /\ UNCHANGED arguments
    /\ UNCHANGED but_applying

InitRebaseSelection ==
    /\ selection_sets_of_document(NoDocument)
    /\ NEXT_ID = 1
    /\ no_call
    /\ new_map
    /\ no_ordering
    /\ \E selection \in RebasedInlineFragmentSelections :
          \E parent_type \in RebaseParents :
             \E error_handling \in {IgnoreError, ThrowError} :
                arguments = Some([selection |-> selection,
                                  parent_type |-> parent_type,
                                  error_handling |-> error_handling])
    /\ result = None

NextRebaseSelection == RebaseInlineFragmentSelection

SpecRebaseSelection == InitRebaseSelection /\ [][NextRebaseSelection]_vars

(***************************************************************************)
(* Conditions and conditions() of a selection and of a selection set.      *)
(* A Conditions is Boolean(b) or Variables(v), v the variables that must   *)
(* hold with, for each, whether it is negated (@skip) or not (@include).   *)
(***************************************************************************)
BooleanValue(b) == [kind |-> "Boolean", value |-> b]

SkipAlways == [name |-> "skip", arguments |-> <<[name |-> "if", value |-> BooleanValue(TRUE)]>>]
IncludeNever == [name |-> "include", arguments |-> <<[name |-> "if", value |-> BooleanValue(FALSE)]>>]

Conditions_Boolean(b) == [kind |-> "Boolean", value |-> b]
Conditions_Variables(variables) == [kind |-> "Variables", variables |-> variables]

\* the `if` argument of an @skip or @include, if the directive has one
if_argument(directive) ==
    IF \E a \in 1..Len(directive.arguments) : directive.arguments[a].name = "if"
    THEN Some(directive.arguments[
                  CHOOSE a \in 1..Len(directive.arguments) :
                     directive.arguments[a].name = "if"].value)
    ELSE None

\* Conditions::from_directives from directive d on, `variables` the ones met
\* so far: @skip(if: true) and @include(if: false) never include, a variable
\* both skipped and included never includes
RECURSIVE from_directives_from(_, _, _)
from_directives_from(directives, d, variables) ==
    IF d > Len(directives)
    THEN Ok(IF DOMAIN variables = {} THEN Conditions_Boolean(TRUE)
            ELSE Conditions_Variables(variables))
    ELSE IF directives[d].name \notin {"skip", "include"}
    THEN from_directives_from(directives, d + 1, variables)
    ELSE Then(if_argument(directives[d]),
              LAMBDA value :
                 IF value = None THEN Err(None)
                 ELSE IF value[1].kind = "Boolean"
                 THEN IF value[1].value = (directives[d].name = "skip")
                      THEN Ok(Conditions_Boolean(FALSE))
                      ELSE from_directives_from(directives, d + 1, variables)
                 ELSE IF value[1].kind = "Variable"
                 THEN IF value[1].name \in DOMAIN variables
                      THEN IF variables[value[1].name] = (directives[d].name = "skip")
                           THEN from_directives_from(directives, d + 1, variables)
                           ELSE Ok(Conditions_Boolean(FALSE))
                      ELSE from_directives_from(
                               directives, d + 1,
                               [v \in DOMAIN variables \cup {value[1].name} |->
                                   IF v \in DOMAIN variables THEN variables[v]
                                   ELSE directives[d].name = "skip"])
                 ELSE Err(None))

\* Conditions::from_directives
Conditions_from_directives(directives) == from_directives_from(directives, 1, <<>>)

\* Conditions::merge
Conditions_merge(self, other) ==
    IF self = Conditions_Boolean(FALSE) \/ other = Conditions_Boolean(FALSE)
    THEN Conditions_Boolean(FALSE)
    ELSE IF self = Conditions_Boolean(TRUE) THEN other
    ELSE IF other = Conditions_Boolean(TRUE) THEN self
    ELSE IF \E v \in DOMAIN self.variables \cap DOMAIN other.variables :
               self.variables[v] # other.variables[v]
    THEN Conditions_Boolean(FALSE)
    ELSE Conditions_Variables(
             [v \in DOMAIN self.variables \cup DOMAIN other.variables |->
                 IF v \in DOMAIN self.variables THEN self.variables[v]
                 ELSE other.variables[v]])

\* NormalizedSelection::directives
NormalizedSelection_directives(selection) ==
    CASE selection.kind = "Field" -> selection.field.data.directives
      [] selection.kind = "FragmentSpread" -> selection.fragment_spread.data.directives
      [] selection.kind = "InlineFragment" -> selection.inline_fragment.data.directives

RECURSIVE NormalizedSelectionSet_conditions(_)

\* a conditions() that looks at the kind of the selection first
conditions_by_kind_first(self) ==
    Then(Conditions_from_directives(NormalizedSelection_directives(self)),
         LAMBDA self_conditions :
            IF ~self_conditions.ok THEN Err(None)
            ELSE CASE self.kind = "Field" -> Ok(self_conditions.val)
                   [] self.kind = "InlineFragment" ->
                         IF self_conditions.val = Conditions_Boolean(FALSE)
                         THEN Ok(Conditions_Boolean(FALSE))
                         ELSE Then(NormalizedSelectionSet_conditions(self.selection_set),
                                   LAMBDA inner :
                                      IF ~inner.ok THEN Err(None)
                                      ELSE Ok(Conditions_merge(self_conditions.val,
                                                               inner.val)))
                   [] self.kind = "FragmentSpread" -> Err(None))

\* NormalizedSelection::conditions
NormalizedSelection_conditions(self) ==
    Then(Conditions_from_directives(NormalizedSelection_directives(self)),
         LAMBDA self_conditions :
            IF ~self_conditions.ok THEN Err(None)
            ELSE IF self_conditions.val = Conditions_Boolean(FALSE)
            THEN Ok(Conditions_Boolean(FALSE))
            ELSE CASE self.kind = "Field" -> Ok(self_conditions.val)
                   [] self.kind = "InlineFragment" ->
                         Then(NormalizedSelectionSet_conditions(self.selection_set),
                              LAMBDA inner :
                                 IF ~inner.ok THEN Err(None)
                                 ELSE Ok(Conditions_merge(self_conditions.val,
                                                          inner.val)))
                   [] self.kind = "FragmentSpread" -> Err(None))

\* the loop of NormalizedSelectionSet::conditions from selection p on
RECURSIVE conditions_of_the_rest(_, _, _)
conditions_of_the_rest(self, p, conditions) ==
    IF p > Len(self.selections) THEN Ok(conditions)
    ELSE Then(NormalizedSelection_conditions(self.selections[p].value),
              LAMBDA selection_conditions :
                 IF ~selection_conditions.ok THEN Err(None)
                 ELSE IF selection_conditions.val # conditions
                 THEN Ok(Conditions_Boolean(TRUE))
                 ELSE conditions_of_the_rest(self, p + 1, conditions))

\* NormalizedSelectionSet::conditions
NormalizedSelectionSet_conditions(self) ==
    IF self.selections = <<>> THEN Ok(Conditions_Boolean(FALSE))
    ELSE Then(NormalizedSelection_conditions(self.selections[1].value),
              LAMBDA first :
                 IF ~first.ok THEN Err(None)
                 ELSE conditions_of_the_rest(self, 2, first.val))

MaxConditioned == 3

\* what is written in a selection set on T: fields, spreads of FI, inline
\* fragments around a spread or a field
ConditionedSelections ==
    {Leaf("T", "v1"),
     RawField("T", "v2", None, <<Skip("a")>>, <<>>),
     RawFragmentSpread("FI", <<>>),
     RawFragmentSpread("FI", <<Skip("a")>>),
     RawFragmentSpread("FI", <<SkipAlways>>),
     RawFragmentSpread("FI", <<IncludeNever>>),
     RawInlineFragment("T", Some("I"), <<Include("a")>>, <<RawFragmentSpread("FI", <<>>)>>),
     RawInlineFragment("T", Some("I"), <<SkipAlways>>, <<RawFragmentSpread("FI", <<>>)>>),
     RawInlineFragment("T", Some("I"), <<Skip("a")>>, <<Leaf("I", "v1")>>)}

\* the fields t written in a selection set on Query
ConditionedFields ==
    {RawField("Query", "t", None, directives, selections) :
        directives \in {<<>>, <<Skip("a")>>, <<SkipAlways>>},
        selections \in {<<Leaf("T", "v1")>>,
                        <<RawField("T", "v1", None, <<Skip("b")>>, <<>>)>>,
                        <<RawFragmentSpread("FI", <<>>)>>}}

\* the selection sets conditions() is asked of: the written ones, normalized
\* with their spreads preserved
ConditionedSelectionSets ==
    {normalize_and_expand_fragments(written, AllFragments, PreserveFragmentSpread, 1).val :
        written \in {[ty |-> "T", selections |-> selections] :
                        selections \in SeqsUpTo(ConditionedSelections, MaxConditioned)}
                    \cup {[ty |-> "Query", selections |-> <<field>>] :
                             field \in ConditionedFields}}

\* selection.conditions()
SelectionConditions ==
    /\ arguments # None
    /\ "selection" \in DOMAIN arguments[1]
    /\ result = None
    /\ result' = Some(NormalizedSelection_conditions(arguments[1].selection))
    /\ UNCHANGED arguments
    /\ UNCHANGED but_applying

\* selection_set.conditions()
SelectionSetConditions ==
    /\ arguments # None
    /\ "selection_set" \in DOMAIN arguments[1]
    /\ result = None
    /\ result' = Some(NormalizedSelectionSet_conditions(arguments[1].selection_set))
    /\ UNCHANGED arguments
    /\ UNCHANGED but_applying

InitConditions ==
    /\ selection_sets_of_document(NoDocument)
    /\ NEXT_ID = 1
    /\ no_call
    /\ new_map
    /\ no_ordering
    /\ \E selection_set \in ConditionedSelectionSets :
          \/ arguments = Some([selection_set |-> selection_set])
          \/ \E p \in 1..Len(selection_set.selections) :
                arguments = Some([selection |-> selection_set.selections[p].value])
    /\ result = None

NextConditions == SelectionConditions \/ SelectionSetConditions

SpecConditions == InitConditions /\ [][NextConditions]_vars

(***************************************************************************)
(* Vocabulary of the properties.                                           *)
(***************************************************************************)
\* the selection set and every selection set nested in it
RECURSIVE selection_sets_of(_)
selection_sets_of(set) ==
    {set} \cup UNION {
        LET value == set.selections[p].value IN
        CASE value.kind = "Field" ->
               IF value.selection_set = None THEN {}
               ELSE selection_sets_of(value.selection_set[1])
          [] value.kind = "InlineFragment" -> selection_sets_of(value.selection_set)
          [] OTHER -> {}
        : p \in 1..Len(set.selections)}

\* a selection set before an operation paired with what the operation left of
\* it, and so on for the nested selection sets of the entries that remain
RECURSIVE set_pairs(_, _)
set_pairs(before, after) ==
    {[before |-> before, after |-> after]} \cup UNION {
        LET entry == before.selections[p]
            q == index_of(after.selections, entry.key)
        IN IF q = 0 THEN {}
           ELSE CASE entry.value.kind = "Field" ->
                       IF entry.value.selection_set = None THEN {}
                       ELSE set_pairs(entry.value.selection_set[1],
                                      after.selections[q].value.selection_set[1])
                  [] entry.value.kind = "InlineFragment" ->
                       set_pairs(entry.value.selection_set,
                                 after.selections[q].value.selection_set)
                  [] OTHER -> {}
        : p \in 1..Len(before.selections)}

carries_defer(selection) ==
    \E d \in 1..Len(selection.directives) : selection.directives[d].name = "defer"

\* what decides, with the directives, whether two written selections are the
\* same selection: the response name of a field, the type condition of a fragment
identity(selection) ==
    CASE selection.kind = "Field" ->
           IF selection.alias # None THEN selection.alias[1] ELSE selection.name
      [] selection.kind = "InlineFragment" -> selection.type_condition
      [] selection.kind = "FragmentSpread" ->
           Some(type_condition(fragments_get(AllFragments, selection.fragment_name)[1]))

\* the directive lists are equal once the order of the arguments is forgotten
SameDirectives(d1, d2) ==
    /\ Len(d1) = Len(d2)
    /\ \A k \in 1..Len(d1) :
          /\ d1[k].name = d2[k].name
          /\ Len(d1[k].arguments) = Len(d2[k].arguments)
          /\ {d1[k].arguments[a] : a \in 1..Len(d1[k].arguments)}
                 = {d2[k].arguments[a] : a \in 1..Len(d2[k].arguments)}

SameSelection(s1, s2) ==
    identity(s1) = identity(s2) /\ SameDirectives(s1.directives, s2.directives)

\* a fragment on its parent type without directives leaves no entry of its own
is_spliced(selection, parent) ==
    /\ selection.kind # "Field"
    /\ selection.directives = <<>>
    /\ identity(selection) \in {None, Some(parent)}

is_introspection(selection) ==
    selection.kind = "Field" /\ selection.name \in {"__schema", "__type"}

\* the places of the operation where exactly two selections of one kind are
\* written side by side, with the normalized selection set of that place
PairSites ==
    LET root == [parent |-> operation.ty, raw |-> operation.selections,
                 set |-> normalized[1].val]
        nested ==
            IF /\ Len(operation.selections) = 1
               /\ operation.selections[1].kind = "Field"
               /\ Len(normalized[1].val.selections) = 1
               /\ normalized[1].val.selections[1].value.selection_set # None
            THEN {[parent |-> operation.selections[1].selection_set.ty,
                   raw |-> operation.selections[1].selection_set.selections,
                   set |-> normalized[1].val.selections[1].value.selection_set[1]]}
            ELSE {}
    IN {site \in {root} \cup nested :
            Len(site.raw) = 2 /\ site.raw[1].kind = site.raw[2].kind}

MergedIffSame(site) ==
    /\ Len(site.set.selections) = 1 <=> SameSelection(site.raw[1], site.raw[2])
    /\ ~SameSelection(site.raw[1], site.raw[2]) => Len(site.set.selections) = 2

Normalized == normalized # None /\ normalized[1].ok

(***************************************************************************)
(* C1                                                                      *)
(***************************************************************************)
\* C1 as stated, for the selections that leave an entry (fields other than
\* __schema and __type, fragments that are not spliced into their parent): two
\* sibling selections of the same kind end up as a single merged entry if and
\* only if they have the same response name (fields) or type condition
\* (fragments) and directive lists that are equal after sorting the arguments;
\* otherwise both remain as separate entries.
C1_MergedIffSameSelection ==
    Normalized =>
        \A site \in PairSites :
            (\A n \in 1..2 : /\ ~is_introspection(site.raw[n])
                             /\ ~is_spliced(site.raw[n], site.parent))
                => MergedIffSame(site)

\* C1, amended: the equivalence holds when neither selection carries @defer;
\* two fragments of which one carries @defer always remain two entries.
C1_MergedIffSameKey ==
    Normalized =>
        \A site \in PairSites :
            (\A n \in 1..2 : /\ ~is_introspection(site.raw[n])
                             /\ ~is_spliced(site.raw[n], site.parent))
                => /\ (\A n \in 1..2 : ~carries_defer(site.raw[n]))
                          => MergedIffSame(site)
                   /\ ( /\ site.raw[1].kind # "Field"
                        /\ \E n \in 1..2 : carries_defer(site.raw[n]) )
                          => Len(site.set.selections) = 2

\* two selections whose directives differ only in the order of the arguments
\* have been merged into one entry
C1_Witness ==
    /\ Normalized
    /\ \E site \in PairSites :
          /\ \A n \in 1..2 : /\ ~carries_defer(site.raw[n])
                             /\ ~is_spliced(site.raw[n], site.parent)
          /\ site.raw[1].directives # site.raw[2].directives
          /\ SameSelection(site.raw[1], site.raw[2])
          /\ Len(site.set.selections) = 1

(***************************************************************************)
(* C3                                                                      *)
(***************************************************************************)
\* C3: normalizing the operation with its spreads expanded yields a tree
\* identical to the one obtained by normalizing the operation in which every
\* spread is written out as an inline fragment on the fragment's type
\* condition with the spread's directives and the fragment's body.
C3_SameAsInlined ==
    (normalized # None /\ inlined # None) =>
        /\ inlined[1].ok = normalized[1].ok
        /\ inlined[1].val = normalized[1].val

(***************************************************************************)
(* C4                                                                      *)
(***************************************************************************)
\* C4: converting the normalized selection set back to a raw selection set
\* and normalizing it again yields a selection set equal to the first one.
C4_Idempotent ==
    renormalized # None =>
        /\ renormalized[1].ok
        /\ renormalized[1].val = normalized[1].val

(***************************************************************************)
(* C5                                                                      *)
(***************************************************************************)
\* C5: normalization succeeds and no field named __schema or __type is left
\* in the normalized tree, at any depth.
C5_NoIntrospectionFields ==
    normalized # None =>
        /\ normalized[1].ok
        /\ \A set \in selection_sets_of(normalized[1].val) :
              \A p \in 1..Len(set.selections) :
                  set.selections[p].value.kind = "Field" =>
                      set.selections[p].value.field.data.field_position.field_name
                          \notin {"__schema", "__type"}

RECURSIVE writes_introspection(_)
writes_introspection(selections) ==
    \E n \in 1..Len(selections) :
        \/ is_introspection(selections[n])
        \/ writes_introspection(selections[n].selection_set.selections)

\* an operation that writes an introspection field below its top level, inside
\* a fragment or a field, has been normalized to a selection set that is not empty
C5_Witness ==
    /\ Normalized
    /\ normalized[1].val.selections # <<>>
    /\ \E n \in 1..Len(operation.selections) :
          /\ ~is_introspection(operation.selections[n])
          /\ writes_introspection(
                 inline_spreads(<<operation.selections[n]>>, fragments))

(***************************************************************************)
(* C6, C7                                                                  *)
(***************************************************************************)
is_typename_entry(entry) ==
    /\ entry.value.kind = "Field"
    /\ entry.value.field.data.field_position.field_name = "__typename"

is_other_field_entry(entry) ==
    /\ entry.value.kind = "Field"
    /\ entry.value.field.data.field_position.field_name # "__typename"

positions(selections, test(_)) == {p \in 1..Len(selections) : test(selections[p])}

\* an entry without what optimize_sibling_typenames may change below it
without_nested(entry) ==
    IF entry.value.kind = "Field"
    THEN [kind |-> "Field", key |-> entry.key, field |-> entry.value.field,
          sibling_typename |-> entry.value.sibling_typename]
    ELSE [kind |-> entry.value.kind, key |-> entry.key,
          inline_fragment |-> entry.value.inline_fragment]

\* the set_pairs of the normalized selection set and the optimized one
OptimizedPairs == set_pairs(normalized[1].val, optimized[1].val)

Optimized == optimized # None /\ optimized[1].ok

has_one_typename_and_a_sibling(set) ==
    /\ set.type_position \notin optimized[1].interface_objects
    /\ Cardinality(positions(set.selections, is_typename_entry)) = 1
    /\ positions(set.selections, is_other_field_entry) # {}

\* C6: in every selection set whose type is not an interface-object type and
\* which held exactly one __typename field and at least one other field, the
\* __typename entry is gone, the first other field carries its response name
\* as sibling_typename, and the other entries are as they were, in order.
C6_TypenameMovedToFirstSibling ==
    Optimized =>
        \A pair \in OptimizedPairs :
            has_one_typename_and_a_sibling(pair.before) =>
                LET t == CHOOSE p \in positions(pair.before.selections,
                                               is_typename_entry) : TRUE
                    rest == NormalizedSelectionMap_remove(
                                pair.before.selections,
                                pair.before.selections[t].key)
                    first == CHOOSE p \in positions(rest, is_other_field_entry) :
                                 \A q \in positions(rest, is_other_field_entry) :
                                     p <= q
                IN /\ keys(pair.after.selections) = keys(rest)
                   /\ pair.after.selections[first].value.sibling_typename
                          = Some(response_name(
                                     pair.before.selections[t].value.field.data))
                   /\ \A p \in 1..Len(rest) :
                          without_nested(pair.after.selections[p])
                              = IF p = first
                                THEN [without_nested(rest[p]) EXCEPT
                                        !.sibling_typename =
                                            pair.after.selections[p]
                                                .value.sibling_typename]
                                ELSE without_nested(rest[p])

\* a selection set below the top level, with one __typename and another
\* field, has lost an entry to the optimisation
C6_Witness ==
    /\ Optimized
    /\ \E pair \in OptimizedPairs :
          /\ has_one_typename_and_a_sibling(pair.before)
          /\ Len(pair.after.selections) < Len(pair.before.selections)
          /\ pair.before # normalized[1].val

\* C7: a selection set whose only selection is __typename, or which has no
\* field selection other than __typename, or whose type is an interface-object
\* type, keeps its entries: same keys, same order, no sibling_typename added.
C7_UntouchedWithoutSibling ==
    Optimized =>
        \A pair \in OptimizedPairs :
            ( \/ /\ Len(pair.before.selections) = 1
                 /\ is_typename_entry(pair.before.selections[1])
              \/ positions(pair.before.selections, is_other_field_entry) = {}
              \/ pair.before.type_position \in optimized[1].interface_objects )
                => /\ keys(pair.after.selections) = keys(pair.before.selections)
                   /\ \A p \in 1..Len(pair.before.selections) :
                          without_nested(pair.after.selections[p])
                              = without_nested(pair.before.selections[p])

(***************************************************************************)
(* C9                                                                      *)
(***************************************************************************)
\* C9: two sibling fields with the same response name that both carry @defer
\* are kept as two entries, in their order, each with its own sub-selections.
C9_DeferredFieldsKeptApart ==
    Normalized =>
        \A site \in PairSites :
            ( /\ site.raw[1].kind = "Field"
              /\ identity(site.raw[1]) = identity(site.raw[2])
              /\ \A n \in 1..2 : carries_defer(site.raw[n]) )
                => /\ Len(site.set.selections) = 2
                   /\ \A n \in 1..2 :
                          Selection_try_from(site.set.selections[n].value)
                              = site.raw[n]

(***************************************************************************)
(* C2                                                                      *)
(***************************************************************************)
Merged == merged # None /\ merged[1].ok

\* the selections written under a selection
sub_selections(value) ==
    CASE value.kind = "Field" ->
           IF value.selection_set = None THEN <<>>
           ELSE values(value.selection_set[1].selections)
      [] OTHER -> values(value.selection_set.selections)

\* the keys of `incoming` that are not in `seen`, each once, in the order of
\* their first occurrence
RECURSIVE first_occurrences(_, _)
first_occurrences(incoming, seen) ==
    IF incoming = <<>> THEN <<>>
    ELSE IF key(Head(incoming)) \in seen
         THEN first_occurrences(Tail(incoming), seen)
         ELSE <<key(Head(incoming))>>
                  \o first_occurrences(Tail(incoming), seen \cup {key(Head(incoming))})

with_key(selections, k) == SelectSeq(selections, LAMBDA value : key(value) = k)

\* `after` holds the keys of `before` in their order, then the new keys of
\* `incoming` in the order of their first occurrence; and the sub-selections of
\* each entry are, in the same sense, those of the selection that made the
\* entry followed by those of the later selections with its key
RECURSIVE MergedInOrder(_, _, _)
MergedInOrder(before, incoming, after) ==
    /\ keys(after) = [p \in 1..Len(before) |-> key(before[p])]
                         \o first_occurrences(
                                incoming, {key(before[p]) : p \in 1..Len(before)})
    /\ \A p \in 1..Len(after) :
          MergedInOrder(
              sub_selections(Head(with_key(before \o incoming, after[p].key))),
              flatten([n \in 1..(Len(with_key(before \o incoming, after[p].key)) - 1) |->
                          sub_selections(
                              with_key(before \o incoming, after[p].key)[n + 1])]),
              [q \in 1..Len(sub_selections(after[p].value)) |->
                  [key |-> key(sub_selections(after[p].value)[q]),
                   value |-> sub_selections(after[p].value)[q]]])

incoming_selections ==
    flatten([n \in 1..Len(merged[1].others) |-> values(merged[1].others[n].selections)])

\* C2: after merge_into the entries of self keep their order, the keys self
\* did not have follow in the order of their first occurrence among the
\* incoming selections, a selection whose key is present adds its
\* sub-selections to that entry without moving it, and the keys are exactly
\* those of self and of the incoming selections.
C2_MergeKeepsOrder ==
    Merged =>
        /\ MergedInOrder(values(merged[1].self.selections), incoming_selections,
                         merged[1].val.selections)
        /\ {merged[1].val.selections[p].key : p \in 1..Len(merged[1].val.selections)}
               = {merged[1].self.selections[p].key :
                      p \in 1..Len(merged[1].self.selections)}
                 \cup {key(incoming_selections[n]) : n \in 1..Len(incoming_selections)}

\* a merge that appended a key to a selection set that was not empty, after
\* an entry whose sub-selections it extended
C2_Witness ==
    /\ Merged
    /\ merged[1].self.selections # <<>>
    /\ Len(merged[1].val.selections) > Len(merged[1].self.selections)
    /\ \E p \in 1..Len(merged[1].self.selections) :
          Len(sub_selections(merged[1].val.selections[p].value))
              > Len(sub_selections(merged[1].self.selections[p].value))

(***************************************************************************)
(* C8                                                                      *)
(***************************************************************************)
\* the selection ids of the fragments carrying @defer among the selections
\* and below them, one for each entry
RECURSIVE deferred_ids(_)
deferred_ids(selections) ==
    IF selections = <<>> THEN <<>>
    ELSE (CASE Head(selections).kind = "InlineFragment" ->
                 IF \E d \in 1..Len(Head(selections).inline_fragment.data.directives) :
                        Head(selections).inline_fragment.data.directives[d].name = "defer"
                 THEN <<Head(selections).inline_fragment.data.selection_id>>
                 ELSE <<>>
            [] Head(selections).kind = "FragmentSpread" ->
                 IF \E d \in 1..Len(Head(selections).fragment_spread.data.directives) :
                        Head(selections).fragment_spread.data.directives[d].name = "defer"
                 THEN <<Head(selections).fragment_spread.data.selection_id>>
                 ELSE <<>>
            [] OTHER -> <<>>)
         \o deferred_ids(sub_selections(Head(selections)))
         \o deferred_ids(Tail(selections))

\* the number of fragments written with @defer among the selections and below
RECURSIVE written_deferred(_)
written_deferred(selections) ==
    IF selections = <<>> THEN 0
    ELSE (IF Head(selections).kind # "Field" /\ carries_defer(Head(selections))
          THEN 1 ELSE 0)
         + written_deferred(Head(selections).selection_set.selections)
         + written_deferred(Tail(selections))

deferred_kept_by_normalization ==
    Normalized =>
        Len(deferred_ids(values(normalized[1].val.selections)))
            = written_deferred(inline_spreads(operation.selections, fragments))

C10_OtherCopyUnchanged ==
    last # None => deref_set(heap, copies[3 - last[1].target]) = last[1].other

\* after a first mutation, optimize_sibling_typenames or merge_into has
\* changed a copy whose allocations are still shared with the other copy
C10_Witness ==
    /\ last # None
    /\ last[1].count >= 2
    /\ last[1].op \in {"optimize_sibling_typenames", "merge_into"}
    /\ deref_set(heap, copies[last[1].target]) # last[1].self
    /\ deref_set(heap, copies[1]) # deref_set(heap, copies[2])
    /\ \E ptr \in 1..Len(heap) : heap[ptr].rc >= 2

(***************************************************************************)
(* C11                                                                     *)
(***************************************************************************)
\* C11: whatever the interleaving of the calls of SelectionId::new by the
\* threads, no two calls get the same id, and the ids a thread gets in its
\* successive calls are strictly increasing.
C11_UniqueIncreasingIds ==
    LET obtained(t) == threads[t].ids \o (IF threads[t].pc = "fetched"
                                          THEN <<threads[t].fetched>> ELSE <<>>)
    IN /\ \A t \in Threads : \A m, n \in 1..Len(obtained(t)) :
              m < n => obtained(t)[m] < obtained(t)[n]
       /\ \A m \in 1..Len(obtained("t1")), n \in 1..Len(obtained("t2")) :
              obtained("t1")[m] # obtained("t2")[n]

\* as long as the counter has not wrapped, the ids are unique and increasing
UniqueIncreasingIdsBeforeWrap == calls_so_far < 2 ^ UsizeBits => C11_UniqueIncreasingIds

(***************************************************************************)
(* C12                                                                     *)
(***************************************************************************)
\* C12: after any sequence of operations of the map and of mutations through
\* the values it lends, every entry's key is the key of its value, computed
\* anew from the value, and no two entries have the same key; an insertion
\* into a vacant entry of a value with another key returns an error and
\* leaves the map as it was.
C12_KeysAreThoseOfTheValues ==
    /\ \A p \in 1..Len(selection_map) :
          /\ selection_map[p].key = key(selection_map[p].value)
          /\ selection_map[p].key = recomputed_key(selection_map[p].value)
    /\ \A p, q \in 1..Len(selection_map) :
          selection_map[p].key = selection_map[q].key => p = q
    /\ \A r \in range(returned) :
          r.op = "vacant_insert" /\ r.key[1] # recomputed_key(r.value[1])
              => ~r.ok /\ selection_map = r.before

\* a map of two entries, one of them changed through its value, has refused
\* the insertion of a value into the vacant entry of another key
C12_Witness ==
    /\ Len(selection_map) >= 2
    /\ \E p \in 1..Len(selection_map) : selection_map[p].value \notin MapValues
    /\ \E r \in range(returned) :
          r.op = "vacant_insert" /\ r.key[1] # key(r.value[1]) /\ ~r.ok

(***************************************************************************)
(* C13, C14                                                                *)
(***************************************************************************)
\* the names of the fragments the mapper was called on before its call c
called_before(c) == {calls[m].fragment : m \in 1..(c - 1)}

\* the fragments the mapper kept before its call c: name -> mapped fragment
kept_before(c) ==
    LET kept == {m \in 1..(c - 1) : calls[m].mapped # None}
    IN [name \in {calls[m].fragment : m \in kept} |->
           calls[CHOOSE m \in kept : calls[m].fragment = name].mapped[1]]

\* the names of the fragments a fragment spreads, read off its selections
RECURSIVE spreads_of(_)
spreads_of(selection_set) ==
    UNION {LET selection == selection_set.selections[p].value IN
           CASE selection.kind = "FragmentSpread" ->
                   {selection.fragment_spread.data.fragment_name}
             [] selection.kind = "Field" /\ selection.selection_set = None -> {}
             [] OTHER -> spreads_of(selection_set_of(selection))
           : p \in 1..Len(selection_set.selections)}

\* C13: when the mapper is called on a fragment, it has been called before
\* on every fragment that fragment spreads, each of them is in the table of
\* the mapped fragments or among the removed ones, and the table handed to
\* the mapper holds exactly the fragments mapped before that the mapper kept.
C13_DependenciesMappedFirst ==
    \A c \in 1..Len(calls) :
        LET uses == spreads_of(named_fragments[calls[c].fragment].selection_set)
        IN /\ uses \subseteq called_before(c)
           /\ \A b \in uses : b \in DOMAIN calls[c].table \/ b \in calls[c].removed
           /\ calls[c].table = kept_before(c)

\* the mapper has been called on a fragment that spreads two others, one the
\* mapper had kept, the other it had removed
C13_Witness ==
    \E c \in 1..Len(calls) :
        \E a, b \in spreads_of(named_fragments[calls[c].fragment].selection_set) :
            a \in DOMAIN calls[c].table /\ b \in calls[c].removed

\* C14: on fragments that do not spread one another in a cycle,
\* map_in_dependency_order returns; every pass of its while loop takes at
\* least one fragment out of the working set; and when it returns the working
\* set is empty, the mapper has been called exactly once on every fragment,
\* and every name is mapped or removed.
C14_TerminatesHavingMappedAll ==
    /\ <>(pc = "done")
    /\ [](pc = "while" /\ passes # <<>>
             => Cardinality(DOMAIN fragments_map) < passes[Len(passes)])
    /\ [](pc = "done"
             => /\ DOMAIN fragments_map = {}
                /\ \A name \in DOMAIN named_fragments :
                      /\ Cardinality({c \in 1..Len(calls) : calls[c].fragment = name}) = 1
                      /\ name \in DOMAIN mapped_fragments \cup removed_fragments
                /\ called_before(Len(calls) + 1) = DOMAIN named_fragments)

\* three fragments have been mapped in three passes
C14_Witness ==
    /\ pc = "done"
    /\ Len(passes) = 3
    /\ Cardinality(DOMAIN named_fragments) = 3

(***************************************************************************)
(* C15                                                                     *)
(***************************************************************************)
\* the body of the fragment of the call c of the mapper, rebased
rebased_body(c) ==
    NormalizedSelectionSet_rebase_on(
        named_fragments[calls[c].fragment].selection_set,
        named_fragments[calls[c].fragment].type_condition_position,
        calls[c].table, SubgraphName, IgnoreError)

\* the fragment of the call c of the mapper is to be kept
qualifies(c) ==
    /\ get_composite_type(
           SubgraphName, named_fragments[calls[c].fragment].type_condition_position).ok
    /\ rebased_body(c).ok
    /\ is_selection_set_worth_using(rebased_body(c).val)

\* C15: NamedFragments::rebase_on keeps every fragment whose type condition
\* is a composite type of the destination schema and whose body rebases
\* without error into a body worth using: the table returned has an entry of
\* that name, of the destination schema, on the type of that schema; None is
\* returned only when no fragment is to be kept.
C15_WorthwhileFragmentsKept ==
    /\ \A c \in 1..Len(calls) :
          qualifies(c) =>
              /\ ~calls[c].panicked
              /\ calls[c].mapped # None
              /\ calls[c].mapped[1].name = calls[c].fragment
              /\ calls[c].mapped[1].schema = SubgraphName
              /\ calls[c].mapped[1].type_condition_position
                     = named_fragments[calls[c].fragment].type_condition_position
    /\ pc = "done" =>
          /\ \A c \in 1..Len(calls) :
                qualifies(c) => calls[c].fragment \in DOMAIN mapped_fragments
          /\ returned_fragments = None => \A c \in 1..Len(calls) : ~qualifies(c)

(***************************************************************************)
(* C16, C17                                                                *)
(***************************************************************************)
\* the body judged has exactly the selection `selection`
single(selection) ==
    /\ Len(arguments[1].selections) = 1
    /\ selection = arguments[1].selections[1].value

is_leaf_field(selection) ==
    selection.kind = "Field" /\ selection.selection_set = None

is_typename_field(selection) ==
    /\ selection.kind = "Field"
    /\ selection.field.data.field_position.field_name = TYPENAME_FIELD

\* C16: a body is judged not worth using when it is empty or is one field
\* selection without a selection set; a body of two or more selections is
\* judged worth using.
C16_EmptyOrSingleLeafNotWorthUsing ==
    result # None =>
        /\ Len(arguments[1].selections) = 0 => ~result[1]
        /\ \A selection \in range(values(arguments[1].selections)) :
              single(selection) /\ is_leaf_field(selection) => ~result[1]
        /\ Len(arguments[1].selections) >= 2 => result[1]

\* a body of one leaf field other than __typename has been judged
C16_Witness ==
    /\ result # None
    /\ \E selection \in range(values(arguments[1].selections)) :
          single(selection) /\ is_leaf_field(selection) /\ ~is_typename_field(selection)

\* C17 as the spec states it: a body that is one non-leaf field, one inline
\* fragment, one fragment spread or one __typename field is judged worth
\* using.
C17_SingleTypenameWorthUsing ==
    result # None =>
        \A selection \in range(values(arguments[1].selections)) :
            /\ single(selection)
            /\ \/ ~is_leaf_field(selection)
               \/ is_typename_field(selection)
            => result[1]

\* C17, amended: a body that is one non-leaf field, one inline fragment or
\* one fragment spread is judged worth using; a body that is one __typename
\* field, a leaf field, is judged not worth using.
C17_SingleNonLeafWorthUsing ==
    result # None =>
        \A selection \in range(values(arguments[1].selections)) :
            single(selection) =>
                /\ ~is_leaf_field(selection) => result[1]
                /\ is_typename_field(selection) => ~result[1]

\* a body of one inline fragment has been judged
C17_Witness ==
    /\ result # None
    /\ \E selection \in range(values(arguments[1].selections)) :
          single(selection) /\ selection.kind = "InlineFragment"


\* the call that was made, and what it was made on
advanced == arguments # None /\ "edge" \in DOMAIN arguments[1] /\ result # None

advanced_over(kind) ==
    /\ advanced
    /\ arguments[1].edge # None
    /\ arguments[1].edge[1] \in 1..Len(GraphEdges)
    /\ GraphEdges[arguments[1].edge[1]].weight.transition.kind = kind

edge_of_call == GraphEdges[arguments[1].edge[1]]

tail_of_call == GraphNodes[edge_of_call.tail]

composite_tail ==
    /\ tail_of_call.type_.kind = "SchemaType"
    /\ is_composite_position(tail_of_call.type_.name)

\* C18: over a KeyResolution edge the call returns exactly the possible runtime
\* types of the tail node's type in the tail node's source schema, whatever
\* the input set was, the empty set included
C18_KeyResolutionForgetsTheInput ==
    (advanced_over("KeyResolution") /\ composite_tail) =>
        /\ result[1] = possible_runtime_types(tail_of_call.source,
                                              tail_of_call.type_.name)
        /\ \A other \in SUBSET ObjectTypes :
              advance_possible_runtime_types(other, arguments[1].edge) = result[1]

\* a key edge into an interface of two implementers, taken with an input set
\* that holds only one of them and a type foreign to the tail's schema
C18_Witness ==
    /\ advanced_over("KeyResolution")
    /\ composite_tail
    /\ arguments[1].possible_runtime_types = {"A", "C"}
    /\ result[1] = Ok({"A", "B"})

KeyResolutionOfEmptyInput ==
    /\ advanced_over("KeyResolution")
    /\ composite_tail
    /\ arguments[1].possible_runtime_types = {}
    /\ result[1] = Ok({"A"})

\* the input runtime types that declare the edge's field in its source schema
declaring(possible) ==
    {t \in possible :
        try_get_field(edge_of_call.weight.transition.source, t,
                      edge_of_call.weight.transition.field_definition_position
                          .field_name) # None}

\* the possible runtime types of the composite type the field returns on t
returned_runtime_types(t) ==
    LET schema == edge_of_call.weight.transition.source
        ty == field_types(schema)[t][edge_of_call.weight.transition
                                         .field_definition_position.field_name]
    IN  IF ty \in ScalarTypes THEN {}
        ELSE implementers(schema, ty) \cup
                 {o \in {ty} : o \notin InterfaceTypes /\ o \in DOMAIN field_types(schema)}

\* C19: over a FieldCollection edge the call returns the union, over the input
\* runtime types that declare the edge's field in the edge's source schema,
\* of the possible runtime types of the composite type the field returns;
\* no declaring type gives the empty set, and a smaller input set never gives
\* a runtime type the larger one does not
C19_FieldCollectionUnion ==
    advanced_over("FieldCollection") =>
        /\ result[1].ok
        /\ result[1].val =
              UNION {returned_runtime_types(t) :
                        t \in declaring(arguments[1].possible_runtime_types)}
        /\ declaring(arguments[1].possible_runtime_types) = {} => result[1].val = {}
        /\ \A smaller \in SUBSET arguments[1].possible_runtime_types :
              /\ advance_possible_runtime_types(smaller, arguments[1].edge).ok
              /\ advance_possible_runtime_types(smaller, arguments[1].edge).val
                     \subseteq result[1].val

\* the field f of the interface I taken from {A, B, C}: A returns A, B returns
\* I, and C is no type of the source, so the union is {A, B}
C19_Witness ==
    /\ advanced_over("FieldCollection")
    /\ edge_of_call.weight.transition.field_definition_position =
           [parent |-> "I", field_name |-> "f"]
    /\ arguments[1].possible_runtime_types = {"A", "B", "C"}
    /\ declaring(arguments[1].possible_runtime_types) = {"A", "B"}
    /\ result[1] = Ok({"A", "B"})

FieldCollectionNoneDeclares ==
    /\ advanced_over("FieldCollection")
    /\ composite_tail
    /\ arguments[1].possible_runtime_types = {"Query", "C"}
    /\ declaring(arguments[1].possible_runtime_types) = {}
    /\ result[1] = Ok({})


\* the call of rebase_on that was made
rebased_on == arguments # None /\ "error_handling" \in DOMAIN arguments[1] /\ result # None

\* a field that cannot be attached to the parent type: the parent type of the
\* subgraph has no field of that name, or it is another type than the field's
\* and the field's is no interface; `__typename` cannot be attached to a type
\* that may be an interface object at runtime
field_cannot_attach(field, parent_type) ==
    /\ field.data.field_position.parent # parent_type
    /\ IF field.data.field_position.field_name = TYPENAME_FIELD
       THEN \E t \in possible_runtime_types(SubgraphName, parent_type).val :
               is_interface_object(t, SubgraphName)
       ELSE \/ field.data.field_position.field_name
                   \notin declared_fields(SubgraphName)[parent_type]
            \/ field.data.field_position.parent \notin InterfaceTypes

\* a type condition that cannot be attached: the subgraph has no such type, or
\* none of its runtime types is one of the parent type's
condition_cannot_attach(inline_fragment, parent_type) ==
    /\ inline_fragment.data.parent_type_position # parent_type
    /\ inline_fragment.data.type_condition_position # None
    /\ \/ inline_fragment.data.type_condition_position[1]
              \notin DOMAIN field_types(SubgraphName)
       \/ possible_runtime_types(
              SubgraphName, inline_fragment.data.type_condition_position[1]).val
              \cap possible_runtime_types(SubgraphName, parent_type).val = {}

cannot_attach(selection, parent_type) ==
    CASE selection.kind = "Field" -> field_cannot_attach(selection.field, parent_type)
      [] selection.kind = "InlineFragment" ->
             condition_cannot_attach(selection.inline_fragment, parent_type)
      [] OTHER -> FALSE

\* a leaf field that can be attached
attachable_leaf(selection, parent_type) ==
    /\ selection.kind = "Field"
    /\ selection.selection_set = None
    /\ ~field_cannot_attach(selection.field, parent_type)

keys_of(entries) == [p \in 1..Len(entries) |-> entries[p].key]

PolicyFollowedOnDeclaredFields ==
    (/\ rebased_on
     /\ \A p \in 1..Len(arguments[1].selection_set.selections) :
           LET selection == arguments[1].selection_set.selections[p].value
           IN  /\ selection.kind # "FragmentSpread"
               /\ selection.kind = "InlineFragment" =>
                     selection.inline_fragment.data.type_condition_position
                         # Some(arguments[1].parent_type)
               /\ selection.kind = "Field" =>
                     \/ selection.field.data.field_position.field_name = TYPENAME_FIELD
                     \/ selection.field.data.field_position.field_name
                            \in declared_fields(SubgraphName)[arguments[1].parent_type]
     /\ \E p \in 1..Len(arguments[1].selection_set.selections) :
           cannot_attach(arguments[1].selection_set.selections[p].value,
                         arguments[1].parent_type)) =>
        IF arguments[1].error_handling = IgnoreError
        THEN /\ result[1].ok
             /\ \A p \in 1..Len(arguments[1].selection_set.selections) :
                   cannot_attach(arguments[1].selection_set.selections[p].value,
                                 arguments[1].parent_type)
                   => arguments[1].selection_set.selections[p].key
                          \notin range(keys_of(result[1].val.selections))
        ELSE ~result[1].ok /\ ~panicked(result[1])

\* the two operations have been normalized and converted
converted_both == arguments # None /\ "first" \in DOMAIN arguments[1] /\ result # None

\* C21: two normalized operations that differ, in their selections, in the
\* order of their selections or in a sibling-typename annotation, never
\* convert to the same Operation
C21_ConversionIsLossless ==
    converted_both =>
        (result[1].normalized[1] # result[1].normalized[2]
            => result[1].converted[1] # result[1].converted[2])

\* without annotations the conversion does tell the operations apart
ConversionIsLosslessWithoutSiblingTypename ==
    (/\ converted_both
     /\ \A n \in 1..2 :
           \A set \in selection_sets_of(result[1].normalized[n].selection_set) :
              \A p \in 1..Len(set.selections) :
                 set.selections[p].value.kind = "Field"
                    => set.selections[p].value.sibling_typename = None) =>
        (result[1].normalized[1] # result[1].normalized[2]
            => result[1].converted[1] # result[1].converted[2])

\* the selection sets of the last merge_into that are not of self's schema
\* and type
mismatched_others ==
    {n \in 1..Len(merged[1].others) :
        \/ merged[1].others[n].schema # merged[1].self.schema
        \/ merged[1].others[n].type_position # merged[1].self.type_position}

\* C22: merge_into returns an error if one of the selection sets is of
\* another schema or type position than self, and self's selection map is
\* then what it was before the call
C22_MismatchLeavesSelfUntouched ==
    (merged # None /\ mismatched_others # {}) =>
        /\ ~merged[1].ok
        /\ merged[1].val = merged[1].self

\* the offending selection set comes second, after one that brings a
\* selection self does not have
C22_Witness ==
    /\ merged # None
    /\ mismatched_others = {2}
    /\ \E p \in 1..Len(merged[1].others[1].selections) :
          ~contains_key(merged[1].self.selections,
                        merged[1].others[1].selections[p].key)
    /\ ~merged[1].ok
    /\ merged[1].val.selections = merged[1].self.selections

\* normalize_operation has been called
normalized_operation == arguments # None /\ "interface_objects" \in DOMAIN arguments[1] /\ result # None

\* the fragments of the document whose body spreads a fragment
spreading(definitions) ==
    {f \in 1..Len(definitions) :
        spread_names(definitions[f].selection_set.selections) # {}}

\* the spreads kept in a normalized selection set
kept_spreads(selection_set) ==
    {selection_set.selections[p].value.fragment_spread.data.fragment_name :
        p \in {q \in 1..Len(selection_set.selections) :
                  selection_set.selections[q].value.kind = "FragmentSpread"}}

\* C23: normalize_operation succeeds and stores, under its name, a normalized
\* definition of every fragment of the document; a fragment whose body
\* spreads another fragment is stored with the spread kept as a
\* fragment-spread selection
C23_EveryFragmentStored ==
    normalized_operation =>
        /\ result[1].ok
        /\ ~result[1].panicked
        /\ DOMAIN result[1].val.fragments
               = {arguments[1].fragments[f].name : f \in 1..Len(arguments[1].fragments)}
        /\ \A f \in spreading(arguments[1].fragments) :
              kept_spreads(result[1].val.fragments[arguments[1].fragments[f].name]
                               .selection_set) # {}

\* the documents whose fragments spread no fragment are normalized, with
\* every fragment stored
FragmentsWithoutSpreadsStored ==
    (normalized_operation /\ spreading(arguments[1].fragments) = {}) =>
        /\ result[1].ok
        /\ DOMAIN result[1].val.fragments
               = {arguments[1].fragments[f].name : f \in 1..Len(arguments[1].fragments)}

\* normalize_and_expand_fragments has been called on a selection set
normalized_set == arguments # None /\ "option" \in DOMAIN arguments[1] /\ result # None

\* the spreads written in the selection set itself
written_spreads ==
    {arguments[1].selection_set.selections[p] :
        p \in {q \in 1..Len(arguments[1].selection_set.selections) :
                  arguments[1].selection_set.selections[q].kind = "FragmentSpread"}}

fragment_of(spread) == fragments_get(arguments[1].fragments, spread.fragment_name)[1]

\* a spread without directives of a fragment on the enclosing type
hoistable(spread) ==
    /\ spread.directives = <<>>
    /\ type_condition(fragment_of(spread)) = arguments[1].selection_set.ty

\* the entries of the result of one kind
entries_of_kind(kind) ==
    {e \in range(result[1].val.selections) : e.value.kind = kind}

\* the spread has left no entry, and the fields of the fragment are entries
\* of the enclosing set
is_hoisted(spread) ==
    /\ \A e \in entries_of_kind("FragmentSpread") :
          e.value.fragment_spread.data.fragment_name # spread.fragment_name
    /\ \A e \in entries_of_kind("InlineFragment") :
          ~ /\ e.value.inline_fragment.data.type_condition_position
                   = Some(arguments[1].selection_set.ty)
            /\ e.value.inline_fragment.data.directives = <<>>
    /\ \A f \in range(fragment_of(spread).selection_set.selections) :
          (f.kind = "Field" /\ ~is_introspection_field(f.name))
             => \E e \in entries_of_kind("Field") :
                   /\ e.value.field.data.field_position.field_name = f.name
                   /\ e.value.field.data.alias = f.alias
                   /\ e.value.field.data.directives = f.directives

\* the spread has become an inline fragment on the fragment's type condition
is_inlined(spread) ==
    \E e \in entries_of_kind("InlineFragment") :
       /\ e.value.inline_fragment.data.type_condition_position
              = Some(type_condition(fragment_of(spread)))
       /\ e.value.inline_fragment.data.directives = spread.directives

\* the spread has become a fragment-spread selection
is_preserved(spread) ==
    \E e \in entries_of_kind("FragmentSpread") :
       /\ e.value.fragment_spread.data.fragment_name = spread.fragment_name
       /\ e.value.fragment_spread.data.directives = spread.directives

\* C24, as the spec has it: a spread without directives of a fragment on the
\* enclosing type is hoisted in either mode; any other spread becomes an
\* inline fragment in inline mode and a fragment-spread selection in
\* preserve mode
C24_HoistedInEitherMode ==
    normalized_set =>
        /\ result[1].ok
        /\ \A spread \in written_spreads :
              IF hoistable(spread) THEN is_hoisted(spread)
              ELSE IF arguments[1].option = InlineFragmentSpread
              THEN is_inlined(spread)
              ELSE is_preserved(spread)

\* C24, as the code has it: in inline mode a spread without directives of a
\* fragment on the enclosing type is hoisted and any other spread becomes an
\* inline fragment on the fragment's type condition; in preserve mode every
\* spread, the hoistable one too, becomes a fragment-spread selection and no
\* inline fragment stands for it
C24_HoistedInInlineMode ==
    normalized_set =>
        /\ result[1].ok
        /\ \A spread \in written_spreads :
              IF arguments[1].option = InlineFragmentSpread
              THEN IF hoistable(spread) THEN is_hoisted(spread)
                   ELSE is_inlined(spread)
              ELSE is_preserved(spread)
        /\ arguments[1].option = InlineFragmentSpread
              => entries_of_kind("FragmentSpread") = {}

\* { ...FT  ...FI @skip } on T in inline mode: v2 of FT is an entry of the
\* set, the spread of FI is an inline fragment on I
C24_Witness ==
    /\ normalized_set
    /\ arguments[1].option = InlineFragmentSpread
    /\ \E spread \in written_spreads : hoistable(spread) /\ is_hoisted(spread)
    /\ \E spread \in written_spreads :
          ~hoistable(spread) /\ spread.directives # <<>> /\ is_inlined(spread)

\* the hoistable spread kept as a spread in preserve mode
PreservedThoughHoistable ==
    /\ normalized_set
    /\ arguments[1].option = PreserveFragmentSpread
    /\ \E spread \in written_spreads : hoistable(spread) /\ is_preserved(spread)

\* a field has been rebased
rebased_field == arguments # None /\ "field" \in DOMAIN arguments[1] /\ result # None

\* the rebase returned a field
succeeded == result[1].ok /\ result[1].val # None

FieldOfAnotherObjectNotRebased ==
    /\ rebased_field
    /\ arguments[1].field.data.field_position = [parent |-> "T", field_name |-> "v1"]
    /\ arguments[1].parent_type = "O"
    /\ ~succeeded

\* an inline fragment has been rebased
rebased_inline_fragment == arguments # None /\ "inline_fragment" \in DOMAIN arguments[1] /\ result # None

condition_of_call == arguments[1].inline_fragment.data.type_condition_position

\* the runtime types of a type of the subgraph
subgraph_runtime_types(type_name) ==
    IF type_name \in InterfaceTypes THEN implementers(SubgraphName, type_name)
    ELSE {type_name}

\* the type condition is a composite type of the subgraph with a runtime
\* type that is one of P's
shares_a_runtime_type ==
    /\ condition_of_call[1] \in DOMAIN field_types(SubgraphName)
    /\ subgraph_runtime_types(condition_of_call[1])
           \cap subgraph_runtime_types(arguments[1].parent_type) # {}

\* the outcome of a failed test: None with IgnoreError, an error with ThrowError
failed_by_policy ==
    IF arguments[1].error_handling = IgnoreError THEN result[1] = Ok(None)
    ELSE ~result[1].ok

\* C26, as the spec has it: an inline fragment with a type condition is
\* rebased on another parent type P exactly when the condition is a
\* composite type of the destination schema whose runtime types share an
\* object type with P's; one without a type condition is always rebased; a
\* failed test gives None with IgnoreError and an error with ThrowError
C26_RebasedIffRuntimeTypesShared ==
    (/\ rebased_inline_fragment
     /\ arguments[1].inline_fragment.data.parent_type_position
            # arguments[1].parent_type) =>
        IF condition_of_call = None \/ shares_a_runtime_type
        THEN succeeded
        ELSE failed_by_policy

\* C26, as the code has it: the fragment is also rebased when its condition
\* names P itself, whatever P's runtime types are
C26_RebasedIffSharedOrSameType ==
    (/\ rebased_inline_fragment
     /\ arguments[1].inline_fragment.data.parent_type_position
            # arguments[1].parent_type) =>
        IF \/ condition_of_call = None
           \/ shares_a_runtime_type
           \/ /\ condition_of_call[1] \in DOMAIN field_types(SubgraphName)
              /\ condition_of_call[1] = arguments[1].parent_type
        THEN succeeded /\ result[1].val[1].data.type_condition_position = condition_of_call
        ELSE failed_by_policy

\* ... on J of the parent T, rebased on J, an interface no type of the
\* subgraph implements: the fragment is rebased though J has no runtime type
C26_Witness ==
    /\ rebased_inline_fragment
    /\ arguments[1].inline_fragment.data.parent_type_position = "T"
    /\ condition_of_call = Some("J")
    /\ arguments[1].parent_type = "J"
    /\ subgraph_runtime_types("J") = {}
    /\ arguments[1].error_handling = ThrowError
    /\ succeeded

\* ... on T of the parent I, rebased on O: T is a type of the subgraph and no
\* runtime type of O, so the fragment is refused
InlineFragmentRefused ==
    /\ rebased_inline_fragment
    /\ arguments[1].inline_fragment.data.parent_type_position = "I"
    /\ condition_of_call = Some("T")
    /\ arguments[1].parent_type = "O"
    /\ arguments[1].error_handling = ThrowError
    /\ ~result[1].ok

\* ... on T of the parent I is rebased on T
InlineFragmentRebasedOnItsCondition ==
    /\ rebased_inline_fragment
    /\ arguments[1].inline_fragment.data.parent_type_position = "I"
    /\ condition_of_call = Some("T")
    /\ arguments[1].parent_type = "T"
    /\ succeeded

\* the call of NormalizedInlineFragmentSelection::rebase_on that was made
rebased_selection == arguments # None /\ "selection" \in DOMAIN arguments[1] /\ result # None

\* what rebasing the inline fragment alone gives
rebased_fragment ==
    NormalizedInlineFragment_rebase_on(
        arguments[1].selection.inline_fragment, arguments[1].parent_type,
        SubgraphName, arguments[1].error_handling)

\* the rebase is on another parent type and succeeds at the fragment level
rebased_at_the_fragment_level ==
    /\ rebased_selection
    /\ arguments[1].selection.inline_fragment.data.parent_type_position
           # arguments[1].parent_type
    /\ rebased_fragment.ok
    /\ rebased_fragment.val # None

\* the narrowed type of the spec: the rebased type condition, or the
\* requested parent type when the fragment has no type condition
narrowed_type ==
    IF rebased_fragment.val[1].data.type_condition_position # None
    THEN rebased_fragment.val[1].data.type_condition_position[1]
    ELSE arguments[1].parent_type

\* the sub-selections rebased on the narrowed type
rebased_sub_selections ==
    NormalizedSelectionSet_rebase_on(
        arguments[1].selection.selection_set, narrowed_type, <<>>, SubgraphName,
        arguments[1].error_handling)

\* C27: when the rebase of an inline fragment selection on another parent
\* type P succeeds at the fragment level, the narrowed type is the rebased
\* type condition, or P when there is none; if it is P the sub-selections
\* are returned unchanged, otherwise they are rebased on the narrowed type
\* and the inline fragment is dropped exactly when none is left
C27_SubSelectionsFollowTheNarrowedType ==
    rebased_at_the_fragment_level =>
        IF narrowed_type = arguments[1].parent_type
        THEN /\ result[1].ok
             /\ result[1].val # None
             /\ result[1].val[1].selection_set = arguments[1].selection.selection_set
        ELSE (rebased_sub_selections.ok /\ ~panicked(rebased_sub_selections)) =>
                /\ result[1].ok
                /\ result[1].val = None <=> rebased_sub_selections.val.selections = <<>>
                /\ result[1].val # None =>
                       result[1].val[1].selection_set = rebased_sub_selections.val

\* with a type condition the sub-selections do follow the narrowed type
SubSelectionsFollowTheTypeCondition ==
    (/\ rebased_at_the_fragment_level
     /\ arguments[1].selection.inline_fragment.data.type_condition_position # None) =>
        IF narrowed_type = arguments[1].parent_type
        THEN /\ result[1].ok
             /\ result[1].val # None
             /\ result[1].val[1].selection_set = arguments[1].selection.selection_set
        ELSE (rebased_sub_selections.ok /\ ~panicked(rebased_sub_selections)) =>
                /\ result[1].ok
                /\ result[1].val = None <=> rebased_sub_selections.val.selections = <<>>
                /\ result[1].val # None =>
                       result[1].val[1].selection_set = rebased_sub_selections.val

\* conditions() was asked of a selection, of a selection set
asked_of_selection ==
    /\ arguments # None
    /\ DOMAIN arguments[1] = {"selection"}
    /\ result # None

asked_of_selection_set ==
    /\ arguments # None
    /\ DOMAIN arguments[1] = {"selection_set"}
    /\ result # None

\* the directives never include the selection: @skip(if: true),
\* @include(if: false), or a variable both skipped and included
never_included(directives) ==
    \/ \E d \in 1..Len(directives) :
          /\ directives[d].name \in {"skip", "include"}
          /\ if_argument(directives[d]) = Some(BooleanValue(directives[d].name = "skip"))
    \/ \E d1, d2 \in 1..Len(directives) :
          /\ directives[d1].name = "skip"
          /\ directives[d2].name = "include"
          /\ if_argument(directives[d1]) = if_argument(directives[d2])

\* a selection set holds a fragment spread among its own selections
holds_a_spread(set) ==
    \E p \in 1..Len(set.selections) : set.selections[p].value.kind = "FragmentSpread"

\* the selections whose conditions() fail, the selection sets whose
\* conditions() fail: the set fails at the first failing selection it reaches,
\* and it stops before it when a selection differs from the first
RECURSIVE set_fails(_)
selection_fails(selection) ==
    /\ ~never_included(NormalizedSelection_directives(selection))
    /\ CASE selection.kind = "FragmentSpread" -> TRUE
          [] selection.kind = "InlineFragment" -> set_fails(selection.selection_set)
          [] OTHER -> FALSE

set_fails(set) ==
    \E p \in 1..Len(set.selections) :
       /\ selection_fails(set.selections[p].value)
       /\ \A q \in 1..(p - 1) : ~selection_fails(set.selections[q].value)
       /\ \A q \in 2..(p - 1) :
             NormalizedSelection_conditions(set.selections[q].value)
                = NormalizedSelection_conditions(set.selections[1].value)

\* C28, as the spec has it: conditions() of a fragment spread is an error
\* whatever its directives, the error comes out of the conditions() of the
\* selection set or of the inline fragment that holds the spread, and the
\* conditions() of a field are those of its own directives
C28_SpreadAlwaysAnError ==
    /\ asked_of_selection =>
          CASE arguments[1].selection.kind = "FragmentSpread" -> ~result[1].ok
            [] arguments[1].selection.kind = "InlineFragment" ->
                  holds_a_spread(arguments[1].selection.selection_set) => ~result[1].ok
            [] arguments[1].selection.kind = "Field" ->
                  result[1] = Conditions_from_directives(
                                  arguments[1].selection.field.data.directives)
    /\ asked_of_selection_set =>
          (holds_a_spread(arguments[1].selection_set) => ~result[1].ok)

\* C28, as the code has it: conditions() of a fragment spread is an error
\* unless its own directives never include it, and then it is
\* Boolean(false); the error comes out of an inline fragment unless the
\* fragment is never included, and out of a selection set unless a selection
\* before the spread differs from the first; the conditions() of a field are
\* those of its own directives
C28_SpreadAnErrorUnlessNeverIncluded ==
    /\ asked_of_selection =>
          CASE arguments[1].selection.kind = "FragmentSpread" ->
                  IF never_included(arguments[1].selection.fragment_spread.data.directives)
                  THEN result[1] = Ok(Conditions_Boolean(FALSE))
                  ELSE ~result[1].ok
            [] arguments[1].selection.kind = "InlineFragment" ->
                  ~result[1].ok <=> selection_fails(arguments[1].selection)
            [] arguments[1].selection.kind = "Field" ->
                  result[1] = Conditions_from_directives(
                                  arguments[1].selection.field.data.directives)
    /\ asked_of_selection_set =>
          (~result[1].ok <=> set_fails(arguments[1].selection_set))

\* ...FI @skip(if: true): the conditions are Boolean(false), no error
C28_Witness ==
    /\ asked_of_selection
    /\ arguments[1].selection.kind = "FragmentSpread"
    /\ arguments[1].selection.fragment_spread.data.directives = <<SkipAlways>>
    /\ result[1] = Ok(Conditions_Boolean(FALSE))

\* ...FI without directives: an error
SpreadAnError ==
    /\ asked_of_selection
    /\ arguments[1].selection.kind = "FragmentSpread"
    /\ arguments[1].selection.fragment_spread.data.directives = <<>>
    /\ ~result[1].ok

\* { v1  v2 @skip(if: $a)  ...FI }: the set answers Boolean(true) at v2
SpreadNotReached ==
    /\ asked_of_selection_set
    /\ Len(arguments[1].selection_set.selections) = 3
    /\ arguments[1].selection_set.selections[3].value.kind = "FragmentSpread"
    /\ selection_fails(arguments[1].selection_set.selections[3].value)
    /\ result[1] = Ok(Conditions_Boolean(TRUE))

\* t @skip(if: $a) { ...FI }: the conditions of the field, whatever it holds
FieldHoldingASpread ==
    /\ asked_of_selection
    /\ arguments[1].selection.kind = "Field"
    /\ arguments[1].selection.selection_set # None
    /\ holds_a_spread(arguments[1].selection.selection_set[1])
    /\ result[1] = Ok(Conditions_Variables([v \in {"a"} |-> TRUE]))

\* C29: optimize_sibling_typenames removes a `__typename` entry only from a
\* selection set that held exactly one `__typename` field; a selection set
\* that held two or more keeps all its entries; and no `__typename` entry
\* carries a sibling_typename afterwards
C29_TypenameRemovedOnlyWhenAlone ==
    Optimized =>
        \A pair \in OptimizedPairs :
            /\ keys(pair.after.selections) # keys(pair.before.selections)
                  => Cardinality(positions(pair.before.selections, is_typename_entry)) = 1
            /\ Cardinality(positions(pair.before.selections, is_typename_entry)) >= 2
                  => keys(pair.after.selections) = keys(pair.before.selections)
            /\ \A p \in positions(pair.after.selections, is_typename_entry) :
                  pair.after.selections[p].value.sibling_typename = None

\* so it is of the selection sets with at most one `__typename` field
TypenameRemovedOnlyWhenAloneAmongOthers ==
    Optimized =>
        \A pair \in OptimizedPairs :
            Cardinality(positions(pair.before.selections, is_typename_entry)) <= 1 =>
                /\ keys(pair.after.selections) # keys(pair.before.selections)
                      => Cardinality(positions(pair.before.selections,
                                               is_typename_entry)) = 1
                /\ \A p \in positions(pair.after.selections, is_typename_entry) :
                      pair.after.selections[p].value.sibling_typename = None

\* `short` is `long` without some of its elements, the others in their order
RECURSIVE is_subsequence(_, _)
is_subsequence(short, long) ==
    IF short = <<>> THEN TRUE
    ELSE IF long = <<>> THEN FALSE
    ELSE IF Head(short) = Head(long) THEN is_subsequence(Tail(short), Tail(long))
    ELSE is_subsequence(short, Tail(long))

\* the call of NormalizedSelectionSet::rebase_on returned a selection set
rebased_set == rebased_on /\ "selection_set" \in DOMAIN arguments[1] /\ result[1].ok

\* the keys of the result are keys of the source, in the order of the source
rebased_keys_in_order ==
    is_subsequence(keys_of(result[1].val.selections),
                   keys_of(arguments[1].selection_set.selections))

\* C30: the selection set that rebase_on(parent_type, .., schema, ..) returns
\* has the type position parent_type and the destination schema, its keys
\* are keys of the source in the order of the source, and an inline fragment
\* of it that was rebased from another parent records parent_type as its
\* parent type position
C30_RebasedAtTheRequestedParent ==
    rebased_set =>
        /\ result[1].val.type_position = arguments[1].parent_type
        /\ result[1].val.schema = SubgraphName
        /\ rebased_keys_in_order
        /\ \A p \in 1..Len(result[1].val.selections) :
              result[1].val.selections[p].value.kind = "InlineFragment" =>
                 result[1].val.selections[p].value.inline_fragment.data.parent_type_position
                    = arguments[1].parent_type

\* the keys do follow the source
RebasedKeysFollowTheSource == rebased_set => rebased_keys_in_order

\* the type position and the schema of the result are those of the source
RebasedSetKeepsItsPosition ==
    rebased_set =>
        /\ result[1].val.type_position = arguments[1].selection_set.type_position
        /\ result[1].val.schema = arguments[1].selection_set.schema

\* a selection set on T with an inline fragment was rebased on another type
\* and the fragment is in the result
InlineFragmentRebasedInASet ==
    /\ rebased_set
    /\ arguments[1].selection_set.type_position # arguments[1].parent_type
    /\ \E p \in 1..Len(result[1].val.selections) :
          result[1].val.selections[p].value.kind = "InlineFragment"

====
